---- MODULE Spec2Model ----
(***************************************************************************)
(* Cost-aware bin-packing scheduler (system/schedule): the plan data model *)
(* (Pod, Node, ResourceModel), the snapshotter, the RFSA seed placer, the  *)
(* simulated-annealing optimizer, the post-processors of a scheduler       *)
(* cycle, and the two loops that share op_lock.                            *)
(*                                                                         *)
(* Units.  CPU is counted in twentieths of a core (0.05 core), so that the *)
(* overheads 0.15 and 0.40 are the integers 3 and 8.  Memory is counted in *)
(* GiB and prices in cents per hour.  Floating point is modelled by exact  *)
(* rational comparison.                                                    *)
(***************************************************************************)
EXTENDS Integers, Sequences, FiniteSets, TLC

VARIABLES
    \* ---- the cluster and the scheduler object ----
    live,        \* the cluster as the API server reports it: nodes and pods
    last_node_create_ts, \* self.last_node_create_ts
    now,         \* time.time(), in seconds
    last_full_ts,\* last_full_ts
    full_start_ts, \* the time of the last optimize call with mode="full"
    cycle_id,    \* self.cycle_id
    calls,       \* what the running cycle or the last tick asked of the VM
                 \* provider and the API server, and wrote to node_info.json
    op_lock,     \* holder of Scheduler.op_lock: "free", "sched" or "cons"
    \* ---- the scheduler thread (run_forever, _run_once) ----
    pc,          \* position of the scheduler thread
    cycles,      \* iterations of run_forever started
    cur,         \* cur_plan, the snapshot
    pending,     \* pending_pods (a list; RFSA sorts it in place)
    mode,        \* mode argument of the running optimize call
    queue,       \* RFSAOptimizer.optimize: pending pods not yet visited
    plan,        \* the plan of the running optimize call (RFSA, then SA walker)
    best,        \* SAOptimizer.optimize: best-seen plan
    still,       \* still_pending of the running optimize call
    T,           \* SAOptimizer.optimize: temperature, in thousandths
    iter,        \* SAOptimizer.optimize: trials done at this temperature
    out,         \* the plan the last optimize call returned
    incPlan,     \* inc_plan
    stillInc,    \* still_inc
    fullPlan,    \* full_plan
    stillFull,   \* still_full
    chosen,      \* chosen_plan
    chosenStill, \* still of _run_once
    doFull,      \* do_full
    \* ---- the consolidator thread (_consolidate_loop) ----
    cpc,         \* position of the consolidator thread
    ticks,       \* iterations of _consolidate_loop started
    tick_ts,     \* time.time() as the running or last tick read it (line 542)
    to_remove    \* to_remove, the names of the nodes to delete

clockVars   == <<now, last_full_ts, full_start_ts, cycle_id>>
clusterVars == <<live, last_node_create_ts, clockVars, calls, op_lock>>
optVars     == <<mode, queue, plan, best, still, T, iter, out>>
cycleVars   == <<cur, pending, incPlan, stillInc, fullPlan, stillFull, chosen,
                 chosenStill, doFull>>
schedVars   == <<pc, cycles, optVars, cycleVars>>
consVars    == <<cpc, ticks, tick_ts, to_remove>>
vars        == <<clusterVars, schedVars, consVars>>

----------------------------------------------------------------------------
(* Units and program constants *)

Core == 20                    \* CPU units in one core
DEFAULT_OVERHEAD_CPU == 3     \* 0.15 core
SPECIAL_OVERHEAD_CPU == 8     \* 0.40 core
MAX_WORKER_NODES == 6
interval_sec == 120           \* Scheduler(interval_sec=120)
cooldown == 240               \* cooldown_sec
creation_block_sec == 150     \* self.creation_block_sec
sleep_sec == 240              \* _consolidate_loop(sleep_sec=240)
HOLD_SEC == 10                \* time.sleep(10) inside the lock
FULL_THRESHOLD_PCT == 95      \* full_threshold 0.95
MAX_CLUSTER_CPU == 30         \* cores
EpsInv == 50000               \* 1 / (1e-6 core per GiB), in CPU units
SuitThreshNum == 3            \* suit_thresh = 0.6 = 3/5
SuitThreshDen == 5

Max(a, b) == IF a >= b THEN a ELSE b
Abs(a) == IF a >= 0 THEN a ELSE -a
Range(s) == {s[i] : i \in 1..Len(s)}


----------------------------------------------------------------------------
(* resource_types.py: Pod and Node *)

Pod(full_name, ns, cpu, mem, is_new) ==
    [full_name |-> full_name, namespace |-> ns, cpu |-> cpu, mem |-> mem,
     is_new |-> is_new]

\* Node.__init__
NewNode(name, region, mt, cpu_cap, mem_cap, price, is_existing) ==
    LET overhead == IF is_existing THEN 0
                    ELSE IF name = "node-1" THEN SPECIAL_OVERHEAD_CPU
                    ELSE DEFAULT_OVERHEAD_CPU
    IN [name |-> name, region |-> region, machine_type |-> mt,
        cpu_cap |-> cpu_cap, mem_cap |-> mem_cap,
        cpu_used |-> 0, mem_used |-> 0, price |-> price,
        pods |-> <<>>, is_existing |-> is_existing,
        usable_cpu_cap |-> Max(0, cpu_cap - overhead)]

\* a plausible slip: the memory dimension is not checked
CanFitCpuOnly(nd, pod) == nd.cpu_used + pod.cpu <= nd.usable_cpu_cap

\* Node.can_fit
CanFit(nd, pod) ==
    /\ nd.cpu_used + pod.cpu <= nd.usable_cpu_cap
    /\ nd.mem_used + pod.mem <= nd.mem_cap

DropPod(pods, full_name) ==
    LET Keep(p) == p.full_name # full_name IN SelectSeq(pods, Keep)

\* Node.add_pod after its assertion passed (callers test CanFit where the
\* assertion can fail)
AddPod(nd, pod, record) ==
    [nd EXCEPT !.cpu_used = @ + pod.cpu,
               !.mem_used = @ + pod.mem,
               !.pods = IF record THEN Append(DropPod(@, pod.full_name), pod)
                        ELSE @]

\* Node.rm_pod
RmPod(nd, pod) ==
    [nd EXCEPT !.cpu_used = @ - pod.cpu,
               !.mem_used = @ - pod.mem,
               !.pods = DropPod(@, pod.full_name)]

\* Node.util_ratio <= num/den
UtilAtMost(nd, num, den) ==
    IF nd.usable_cpu_cap = 0 THEN den <= num
    ELSE nd.cpu_used * den <= num * nd.usable_cpu_cap

----------------------------------------------------------------------------
(* resource_model.py: ResourceModel.  nodes is a dict in insertion order,  *)
(* modelled as a sequence of Node records with distinct names; pod2node is *)
(* a function from pod full names to node names.                           *)

EmptyMap == [x \in {} |-> "none"]
MapPut(f, k, v) == [x \in (DOMAIN f) \cup {k} |-> IF x = k THEN v ELSE f[x]]

Plan(nodes, pod2node) == [nodes |-> nodes, pod2node |-> pod2node]
NoPlan == [nodes |-> <<>>, pod2node |-> EmptyMap, none |-> TRUE]
IsPlan(p) == DOMAIN p = {"nodes", "pod2node"}

NodeNames(p) == {p.nodes[i].name : i \in 1..Len(p.nodes)}
HasNode(p, name) == name \in NodeNames(p)
NodeIdx(p, name) == CHOOSE i \in 1..Len(p.nodes) : p.nodes[i].name = name
GetNode(p, name) == p.nodes[NodeIdx(p, name)]

\* assignment through a reference to a node of the plan
PutNode(p, nd) == [p EXCEPT !.nodes[NodeIdx(p, nd.name)] = nd]

\* ResourceModel.open_node (self.nodes[node.name] = node)
OpenNode(p, nd) ==
    IF HasNode(p, nd.name) THEN PutNode(p, nd)
    ELSE [p EXCEPT !.nodes = Append(@, nd)]

\* ResourceModel.move_pod(pod, src, dst), src and dst being nodes of p given
\* by their names: rm_pod on src, then add_pod on dst, whose assertion
\* raises when dst cannot fit the pod, then the mapping. raised tells whether
\* the assertion failed, plan is the model as the call leaves it.
MovePod(p, pod, src, dst) ==
    LET p1 == PutNode(p, RmPod(GetNode(p, src), pod))
        d  == GetNode(p1, dst)
    IN IF ~CanFit(d, pod) THEN [raised |-> TRUE, plan |-> p1]
       ELSE [raised |-> FALSE,
             plan |-> [PutNode(p1, AddPod(d, pod, TRUE)) EXCEPT !.pod2node =
                          MapPut(@, pod.full_name, dst)]]

\* del self.nodes[name]
DelNode(p, name) ==
    LET Keep(n) == n.name # name IN [p EXCEPT !.nodes = SelectSeq(@, Keep)]

IsWorker(nd) == nd.name # "master"
Workers(p) == SelectSeq(p.nodes, IsWorker)

RECURSIVE SumCpuCap(_)
SumCpuCap(nodes) ==
    IF nodes = <<>> THEN 0 ELSE Head(nodes).cpu_cap + SumCpuCap(Tail(nodes))

\* ResourceModel.nodes_by_region().get(region, []) -> its length
RegionLoad(p, region) ==
    Cardinality({i \in 1..Len(p.nodes) : p.nodes[i].region = region})

\* the first element of a stable ascending sort of s under the strict order
\* Less: the earliest element that no other element precedes
FirstMin(s, Less(_, _)) ==
    LET i == CHOOSE k \in 1..Len(s) :
                 /\ \A j \in 1..Len(s) : ~Less(s[j], s[k])
                 /\ \A j \in 1..(k - 1) : \E l \in 1..Len(s) : Less(s[l], s[j])
    IN s[i]

\* list.sort: a stable sort of s under the strict order Less
SortBy(s, Less(_, _)) ==
    LET Rank(i) == 1 + Cardinality({j \in 1..Len(s) :
                        \/ Less(s[j], s[i])
                        \/ (~Less(s[i], s[j]) /\ j < i)})
    IN [k \in 1..Len(s) |-> s[CHOOSE i \in 1..Len(s) : Rank(i) = k]]

----------------------------------------------------------------------------
(* cluster_state.py: snapshot_cluster *)

\* lines 54-72: Ready nodes with an entry in node_info.json
SnapshotNodes(lv) ==
    LET Known(n) == n.ready /\ n.meta
        known == SelectSeq(lv.nodes, Known)
    IN [i \in 1..Len(known) |->
           NewNode(known[i].name, known[i].region, known[i].machine_type,
                   known[i].cpu, known[i].mem, 0, TRUE)]

\* lines 78-117: one iteration of the loop over the listed pods
SnapshotPod(p, lp) ==
    IF lp.phase \notin {"Running", "Pending"} THEN p
    ELSE IF lp.phase # "Running" THEN p
    ELSE IF ~HasNode(p, lp.node) THEN p
    ELSE LET pod == Pod(lp.full_name, lp.namespace, lp.cpu, lp.mem, FALSE)
             nd  == GetNode(p, lp.node)
         IN IF ~CanFit(nd, pod) THEN p      \* "resource overflow" tolerated
            ELSE [PutNode(p, AddPod(nd, pod, lp.namespace = "default"))
                     EXCEPT !.pod2node = MapPut(@, pod.full_name, lp.node)]

RECURSIVE SnapshotPods(_, _)
SnapshotPods(p, lps) ==
    IF lps = <<>> THEN p
    ELSE SnapshotPods(SnapshotPod(p, Head(lps)), Tail(lps))

snapshot_cluster(lv) == SnapshotPods(Plan(SnapshotNodes(lv), EmptyMap), lv.pods)

\* scheduler.py: Scheduler._fetch_pending_list
FetchPendingList(lv) ==
    LET Mine(lp) == /\ lp.phase = "Pending"
                    /\ lp.custom
                    /\ lp.namespace = "default"
                    /\ lp.node = "none"
        mine == SelectSeq(lv.pods, Mine)
    IN [i \in 1..Len(mine) |->
           Pod(mine[i].full_name, mine[i].namespace, mine[i].cpu, mine[i].mem,
               TRUE)]

----------------------------------------------------------------------------
(* Suitability: suit = |rho_pod - rho_node| / (rho_node + 1e-6), with      *)
(* rho_pod = a / b and rho_node = c / d (a, c in CPU units; b, d in GiB),  *)
(* a zero b or d giving rho = +inf.  A finite suit is kept as the record   *)
(* [n, b, c, d] standing for n / (b * (c + d / EpsInv)).                   *)

Suit(a, b, c, d) ==
    IF d = 0 THEN [kind |-> "nan", n |-> 0, b |-> 0, c |-> 0, d |-> 0]
    ELSE IF b = 0 THEN [kind |-> "inf", n |-> 0, b |-> 0, c |-> 0, d |-> 0]
    ELSE [kind |-> "fin", n |-> Abs(a * d - c * b), b |-> b, c |-> c, d |-> d]

\* EpsInv * l < r, without leaving 32 bits
LessEps(l, r) ==
    IF l >= 42950 THEN FALSE
    ELSE IF l <= -42950 THEN TRUE
    ELSE EpsInv * l < r

SuitLess(s1, s2) ==
    IF s1.kind = "nan" \/ s2.kind = "nan" THEN FALSE
    ELSE IF s1.kind = "inf" THEN FALSE
    ELSE IF s2.kind = "inf" THEN TRUE
    ELSE LessEps(s1.n * s2.b * s2.c - s2.n * s1.b * s1.c,
                 s2.n * s1.b * s1.d - s1.n * s2.b * s2.d)

\* suit <= suit_thresh (0.6)
SuitGood(s) ==
    IF s.kind # "fin" THEN FALSE
    ELSE ~LessEps(SuitThreshNum * s.b * s.c - SuitThreshDen * s.n,
                  - SuitThreshNum * s.b * s.d)

----------------------------------------------------------------------------
(* The catalog: spec_map / price_map, in iteration order.  price 0 stands  *)
(* for a machine type with no OnDemand price.                              *)

Catalog ==
    << [region |-> "r1", mt |-> "m-2", vcpu |-> 2, mem |-> 8,  price |-> 10],
       [region |-> "r1", mt |-> "m-4", vcpu |-> 4, mem |-> 16, price |-> 20],
       [region |-> "r1", mt |-> "m-8", vcpu |-> 8, mem |-> 32, price |-> 32],
       [region |-> "r1", mt |-> "c-4", vcpu |-> 4, mem |-> 4,  price |-> 15],
       [region |-> "r2", mt |-> "m-2", vcpu |-> 2, mem |-> 8,  price |-> 10],
       [region |-> "r2", mt |-> "m-4", vcpu |-> 4, mem |-> 16, price |-> 21],
       [region |-> "r2", mt |-> "m-8", vcpu |-> 8, mem |-> 32, price |-> 30],
       [region |-> "r2", mt |-> "c-4", vcpu |-> 4, mem |-> 4,  price |-> 0],
       [region |-> "r3", mt |-> "m-2", vcpu |-> 2, mem |-> 8,  price |-> 10],
       [region |-> "r3", mt |-> "m-8", vcpu |-> 8, mem |-> 32, price |-> 30] >>

\* machine_type.rsplit("-", 1)[0] for the names of the catalog
Family(mt) == IF mt \in {"m-2", "m-4", "m-8"} THEN "m"
              ELSE IF mt = "c-4" THEN "c" ELSE mt

\* node names handed out for the random five-digit suffixes; a name is
\* drawn that no node of the plans at hand carries
NamePool == <<"h1", "h2", "h3", "h4", "h5", "h6", "h7", "h8">>

FreshName(used) ==
    NamePool[CHOOSE i \in 1..Len(NamePool) :
                 /\ NamePool[i] \notin used
                 /\ \A j \in 1..(i - 1) : NamePool[j] \in used]

----------------------------------------------------------------------------
(* rfsa_optimizer.py: RFSAOptimizer *)

\* line 73: pending.sort(key=cpu + mem, reverse=True)
SortPending(pods) ==
    LET Bigger(p, q) == p.cpu + Core * p.mem > q.cpu + Core * q.mem
    IN SortBy(pods, Bigger)

\* lines 105-118: the key (cpu_ratio, suit) of a node for a pod, kept with
\* cpu_left
FitKey(nd, pod) ==
    LET cpu_left == nd.usable_cpu_cap - nd.cpu_used
        mem_left == nd.mem_cap - nd.mem_used
    IN [cpu_left |-> cpu_left,
        ratio_num |-> cpu_left - pod.cpu, ratio_den |-> nd.cpu_cap,
        suit |-> Suit(pod.cpu, pod.mem, cpu_left, mem_left)]

\* line 120: key < best[:2], where best holds (cpu_left, suit, nd): the
\* ratio of the candidate against the cpu_left, in cores, of the best
KeyLess(k, b) ==
    \/ Core * k.ratio_num < b.cpu_left * k.ratio_den
    \/ /\ Core * k.ratio_num = b.cpu_left * k.ratio_den
       /\ SuitLess(k.suit, b.suit)

\* lines 98-121: the index of the node the loop ends with, 0 for None
RECURSIVE FitBest(_, _, _, _)
FitBest(p, pod, i, bestIdx) ==
    IF i > Len(p.nodes) THEN bestIdx
    ELSE LET nd == p.nodes[i]
         IN IF ~CanFit(nd, pod) \/ nd.name = "master"
            THEN FitBest(p, pod, i + 1, bestIdx)
            ELSE IF bestIdx = 0
                    \/ KeyLess(FitKey(nd, pod), FitKey(p.nodes[bestIdx], pod))
                 THEN FitBest(p, pod, i + 1, i)
                 ELSE FitBest(p, pod, i + 1, bestIdx)

\* lines 123-128
FitExisting(p, pod) ==
    LET b == FitBest(p, pod, 1, 0)
    IN IF b = 0 THEN NoPlan
       ELSE [p EXCEPT !.nodes[b] = AddPod(@, pod, TRUE),
                      !.pod2node = MapPut(@, pod.full_name, p.nodes[b].name)]

SuitEq(s1, s2) ==
    /\ s1.kind # "nan" /\ s2.kind # "nan"
    /\ ~SuitLess(s1, s2) /\ ~SuitLess(s2, s1)

PriceKnown(e) == e.price > 0

\* the machine-type filter shared by _open_new_node (lines 154-167) and
\* _pick_machine (lines 413-419): big enough, within cpu_allow, priced
MachineOk(e, need_cpu, need_mem, cpu_allow) ==
    /\ ~(e.vcpu * Core - DEFAULT_OVERHEAD_CPU < need_cpu \/ e.mem < need_mem)
    /\ ~(e.vcpu * Core > cpu_allow)
    /\ PriceKnown(e)

\* lines 169-174: the tuple (cpu_left, suit, price, region, mt) of an entry
Cand(e, need_cpu, need_mem) ==
    [cpu_left |-> e.vcpu * Core - DEFAULT_OVERHEAD_CPU - need_cpu,
     suit |-> Suit(need_cpu, need_mem, e.vcpu * Core, e.mem),
     price |-> e.price, region |-> e.region, mt |-> e.mt,
     vcpu |-> e.vcpu, mem |-> e.mem]

\* an order that leaves the price out
CandLessNoPrice(x, y) ==
    \/ x.cpu_left < y.cpu_left
    \/ x.cpu_left = y.cpu_left /\ SuitLess(x.suit, y.suit)

\* ascending order on (t[0], t[1], t[2])
CandLess(x, y) ==
    \/ x.cpu_left < y.cpu_left
    \/ /\ x.cpu_left = y.cpu_left
       /\ \/ SuitLess(x.suit, y.suit)
          \/ SuitEq(x.suit, y.suit) /\ x.price < y.price

CandTie(x, y) ==
    x.cpu_left = y.cpu_left /\ SuitEq(x.suit, y.suit) /\ x.price = y.price

\* an off-by-one slip in the test of the node count
WorkerCapReachedLate(worker_nodes) == Len(worker_nodes) > MAX_WORKER_NODES

\* lines 148-149: the node count is at its limit
WorkerCapReached(worker_nodes) == Len(worker_nodes) >= MAX_WORKER_NODES

\* lines 133-192: the Node returned, NoNode for None
NoNode == [name |-> "none", none |-> TRUE]
IsNode(nd) == "none" \notin DOMAIN nd

OpenNewNode(p, pod, name) ==
    LET worker_nodes == Workers(p)
        curr_cpu_cap == SumCpuCap(worker_nodes)
        cpu_allow    == MAX_CLUSTER_CPU * Core - curr_cpu_cap
        Ok(e)        == MachineOk(e, pod.cpu, pod.mem, cpu_allow)
        ok           == SelectSeq(Catalog, Ok)
        all          == [i \in 1..Len(ok) |-> Cand(ok[i], pod.cpu, pod.mem)]
        Good(t)      == SuitGood(t.suit)
        Other(t)     == ~SuitGood(t.suit)
        good         == SelectSeq(all, Good)
        cand         == IF good # <<>> THEN good ELSE SelectSeq(all, Other)
        Less(x, y)   == \/ CandLess(x, y)
                        \/ /\ CandTie(x, y)
                           /\ RegionLoad(p, x.region) < RegionLoad(p, y.region)
    IN IF WorkerCapReached(worker_nodes) THEN NoNode
       ELSE IF all = <<>> THEN NoNode
       ELSE LET t == FirstMin(cand, Less)
            IN NewNode(name, t.region, t.mt, t.vcpu * Core, t.mem, t.price,
                       FALSE)

\* lines 75-90: one iteration of the loop over the sorted pending pods
RfsaPlace(st, pod) ==
    LET fit == FitExisting(st.plan, pod)
    IN IF IsPlan(fit) THEN [st EXCEPT !.plan = fit]
       ELSE LET nd == OpenNewNode(st.plan, pod, FreshName(NodeNames(st.plan)))
            IN IF IsNode(nd)
               THEN [st EXCEPT
                        !.plan = [OpenNode(st.plan, AddPod(nd, pod, TRUE))
                                     EXCEPT !.pod2node =
                                         MapPut(@, pod.full_name, nd.name)]]
               ELSE [st EXCEPT !.still = Append(@, pod)]

----------------------------------------------------------------------------
(* sa_optimizer.py: energy, scaled by 72000 so that every term is an       *)
(* integer for the capacities and node counts of the model (cpu_cap of 1,  *)
(* 2, 4 or 8 cores, at most 6 counted nodes).                              *)

W_COST   == 720       \* w_cost   = 1.0, prices in cents
W_IDLE   == 36000     \* w_idle   = 0.5
W_REGION == 28800     \* w_region = 0.4
W_NODES  == 43200     \* w_nodes  = 0.6

Counted(nd) == nd.name # "master" /\ nd.name # "node-1"

RECURSIVE IdleSum(_)
IdleSum(nodes) ==
    IF nodes = <<>> THEN 0
    ELSE (W_IDLE * (Head(nodes).cpu_cap - Head(nodes).cpu_used))
             \div Head(nodes).cpu_cap
         + IdleSum(Tail(nodes))

RECURSIVE PriceSum(_)
PriceSum(nodes) ==
    IF nodes = <<>> THEN 0 ELSE Head(nodes).price + PriceSum(Tail(nodes))

RECURSIVE SquareSum(_, _)
SquareSum(p, regions) ==
    IF regions = {} THEN 0
    ELSE LET r == CHOOSE x \in regions : TRUE
         IN RegionLoad(p, r) * RegionLoad(p, r) + SquareSum(p, regions \ {r})

\* energy(plan), lines 36-49: reg_hist is built from every node of the plan
energy(p) ==
    LET counted == SelectSeq(p.nodes, Counted)
        total   == Len(counted)
        regions == {p.nodes[i].region : i \in 1..Len(p.nodes)}
        conc    == IF total = 0 THEN W_REGION
                   ELSE (W_REGION * SquareSum(p, regions)) \div (total * total)
    IN W_COST * PriceSum(counted) + IdleSum(counted) + conc + W_NODES * total

----------------------------------------------------------------------------
(* sa_optimizer.py: SAOptimizer *)

\* the normalization pass left out
NormalizeSkipped(p) == p

\* _normalize, lines 80-89
Normalize(p) ==
    LET Stays(nd, q) == ~(q.full_name \in DOMAIN p.pod2node
                          /\ p.pod2node[q.full_name] # nd.name)
        Clean(nd) == LET Keep(q) == Stays(nd, q)
                     IN [nd EXCEPT !.pods = SelectSeq(@, Keep)]
    IN [p EXCEPT !.nodes = [i \in 1..Len(p.nodes) |-> Clean(p.nodes[i])]]

\* _constraints_ok, lines 382-387
ConstraintsOk(p) ==
    /\ Len(Workers(p)) <= MAX_WORKER_NODES
    /\ SumCpuCap(Workers(p)) <= MAX_CLUSTER_CPU * Core

\* _can_add_node, lines 389-394
CanAddNode(p) ==
    /\ ~(Len(Workers(p)) >= MAX_WORKER_NODES)
    /\ SumCpuCap(Workers(p)) < MAX_CLUSTER_CPU * Core

\* the tail of every move: return new if _constraints_ok, after _normalize
Checked(p) == IF ConstraintsOk(p) THEN Normalize(p) ELSE NoPlan

\* lines 132-134: the names of the pods listed on the non-master nodes (the
\* mode-specific list of lines 118-130 is overwritten by these lines)
ExpPods(p) ==
    UNION {{p.nodes[i].pods[k].full_name : k \in 1..Len(p.nodes[i].pods)} :
              i \in {j \in 1..Len(p.nodes) : p.nodes[j].name # "master"}}

\* _get_pod_obj: the position of the pod in the node's list, 0 for None
PodPos(nd, full_name) ==
    IF \E k \in 1..Len(nd.pods) : nd.pods[k].full_name = full_name
    THEN CHOOSE k \in 1..Len(nd.pods) :
             /\ nd.pods[k].full_name = full_name
             /\ \A j \in 1..(k - 1) : nd.pods[j].full_name # full_name
    ELSE 0

\* pod2node[p_full] names a node of the plan (a KeyError otherwise)
Located(p, full_name) ==
    full_name \in DOMAIN p.pod2node /\ HasNode(p, p.pod2node[full_name])

\* op == "move", lines 142-162
NbrMove(new, p_full, tgt) ==
    IF ~Located(new, p_full) THEN NoPlan
    ELSE LET src_nd == GetNode(new, new.pod2node[p_full])
             k      == PodPos(src_nd, p_full)
             tgt_nd == new.nodes[tgt]
         IN IF k = 0 THEN NoPlan
            ELSE IF tgt_nd.name = src_nd.name \/ tgt_nd.name = "master"
            THEN NoPlan
            ELSE IF ~CanFit(tgt_nd, src_nd.pods[k]) THEN NoPlan
            ELSE LET pod == src_nd.pods[k]
                     moved == PutNode(PutNode(new, RmPod(src_nd, pod)),
                                      AddPod(tgt_nd, pod, TRUE))
                 IN Checked([moved EXCEPT !.pod2node =
                                MapPut(@, pod.full_name, tgt_nd.name)])

\* op == "swap", lines 164-183
NbrSwap(new, p1, p2) ==
    IF ~Located(new, p1) \/ ~Located(new, p2) THEN NoPlan
    ELSE LET n1 == GetNode(new, new.pod2node[p1])
             n2 == GetNode(new, new.pod2node[p2])
             k1 == PodPos(n1, p1)
             k2 == PodPos(n2, p2)
         IN IF n1.name = n2.name \/ "master" \in {n1.name, n2.name}
            THEN NoPlan
            ELSE IF k1 = 0 \/ k2 = 0 THEN NoPlan
            ELSE LET pd1 == n1.pods[k1]
                     pd2 == n2.pods[k2]
                 IN IF CanFit(n1, pd2) /\ CanFit(n2, pd1)
                    THEN LET m1 == AddPod(RmPod(n1, pd1), pd2, TRUE)
                             m2 == AddPod(RmPod(n2, pd2), pd1, TRUE)
                             sw == PutNode(PutNode(new, m1), m2)
                         IN Checked([sw EXCEPT !.pod2node =
                                MapPut(MapPut(@, p1, n2.name), p2, n1.name)])
                    ELSE NoPlan

\* the first other node that can fit the pod, master or not
FirstFitAnyNode(p, ndName, pod) ==
    LET Fits(i) == p.nodes[i].name # ndName /\ CanFit(p.nodes[i], pod)
    IN IF \E i \in 1..Len(p.nodes) : Fits(i)
       THEN CHOOSE i \in 1..Len(p.nodes) :
                Fits(i) /\ \A j \in 1..(i - 1) : ~Fits(j)
       ELSE 0

\* lines 196-202: the first other non-master node, in dict order, that can
\* fit the pod; 0 when there is none
FirstFit(p, ndName, pod) ==
    LET Fits(i) == /\ p.nodes[i].name # ndName
                   /\ p.nodes[i].name # "master"
                   /\ CanFit(p.nodes[i], pod)
    IN IF \E i \in 1..Len(p.nodes) : Fits(i)
       THEN CHOOSE i \in 1..Len(p.nodes) :
                Fits(i) /\ \A j \in 1..(i - 1) : ~Fits(j)
       ELSE 0

\* lines 194-204: migrate the listed pods of nd one by one
RECURSIVE CloseMigrate(_, _, _)
CloseMigrate(p, ndName, pods) ==
    IF pods = <<>> THEN p
    ELSE LET pod == Head(pods)
             i   == FirstFit(p, ndName, pod)
         IN IF i = 0 THEN NoPlan
            ELSE LET other == p.nodes[i]
                     q == PutNode(PutNode(p, RmPod(GetNode(p, ndName), pod)),
                                  AddPod(other, pod, TRUE))
                 IN CloseMigrate([q EXCEPT !.pod2node =
                                      MapPut(@, pod.full_name, other.name)],
                                 ndName, Tail(pods))

\* candidates that include master and node-1
LowUtilAnyNode(p, num, den) ==
    {i \in 1..Len(p.nodes) : UtilAtMost(p.nodes[i], num, den)}

\* the candidates of close (lines 188-189) and upgrade (lines 241-242)
LowUtil(p, num, den) ==
    {i \in 1..Len(p.nodes) : /\ Counted(p.nodes[i])
                             /\ UtilAtMost(p.nodes[i], num, den)}

\* lines 188-215: close once the mode test has passed
CloseNode(new, i) ==
    IF i \notin LowUtil(new, 1, 2) THEN NoPlan
    ELSE LET nd == new.nodes[i]
             m  == CloseMigrate(new, nd.name, nd.pods)
         IN IF ~IsPlan(m) THEN NoPlan
            ELSE IF Len(GetNode(m, nd.name).pods) = 0
                 THEN Checked(DelNode(m, nd.name))
                 ELSE Checked(m)

\* close without the test of the mode
NbrCloseAnyMode(new, incremental, i) == CloseNode(new, i)

\* op == "close", lines 185-215, nd being new.nodes[i]
NbrClose(new, incremental, i) ==
    IF incremental THEN NoPlan ELSE CloseNode(new, i)

\* _pick_machine, lines 397-430
PickMachine(pod, p, name) ==
    LET cpu_allow == MAX_CLUSTER_CPU * Core - SumCpuCap(Workers(p))
        Ok(e)     == MachineOk(e, pod.cpu, pod.mem, cpu_allow)
        ok        == SelectSeq(Catalog, Ok)
        cand      == [i \in 1..Len(ok) |-> Cand(ok[i], pod.cpu, pod.mem)]
    IN IF pod.cpu > cpu_allow THEN NoNode
       ELSE IF cand = <<>> THEN NoNode
       ELSE LET t == FirstMin(cand, CandLess)
            IN NewNode(name, t.region, t.mt, t.vcpu * Core, t.mem, t.price,
                       FALSE)

\* op == "open", lines 217-234, pd being the pending pod drawn
NbrOpen(new, pd, name) ==
    IF ~CanAddNode(new) THEN NoPlan
    ELSE LET nd == PickMachine(pd, new, name)
         IN IF ~IsNode(nd) THEN NoPlan
            ELSE Checked([OpenNode(new, AddPod(nd, pd, TRUE))
                             EXCEPT !.pod2node =
                                 MapPut(@, pd.full_name, nd.name)])

RECURSIVE PodCpuSum(_)
PodCpuSum(pods) ==
    IF pods = <<>> THEN 0 ELSE Head(pods).cpu + PodCpuSum(Tail(pods))

RECURSIVE PodMemSum(_)
PodMemSum(pods) ==
    IF pods = <<>> THEN 0 ELSE Head(pods).mem + PodMemSum(Tail(pods))

\* lines 291-298: move the pods of the group onto new_nd, one by one
RECURSIVE UpgradeMigrate(_, _, _)
UpgradeMigrate(p, newName, pods) ==
    IF pods = <<>> THEN p
    ELSE LET pod    == Head(pods)
             new_nd == GetNode(p, newName)
         IN IF ~CanFit(new_nd, pod) THEN NoPlan
            ELSE IF ~Located(p, pod.full_name) THEN NoPlan
            ELSE LET old_nd == GetNode(p, p.pod2node[pod.full_name])
                     q == PutNode(PutNode(p, RmPod(old_nd, pod)),
                                  AddPod(new_nd, pod, TRUE))
                 IN UpgradeMigrate([q EXCEPT !.pod2node =
                                        MapPut(@, pod.full_name, newName)],
                                   newName, Tail(pods))

\* lines 301-308: close the nodes of the group that are left without pods
RECURSIVE UpgradeClose(_, _)
UpgradeClose(p, names) ==
    IF names = <<>> THEN p
    ELSE LET n == Head(names)
         IN IF ~HasNode(p, n) THEN UpgradeClose(p, Tail(names))
            ELSE IF Len(GetNode(p, n).pods) = 0
                 THEN UpgradeClose(DelNode(p, n), Tail(names))
                 ELSE UpgradeClose(p, Tail(names))

\* op == "upgrade", lines 237-314: src1 = new.nodes[i]; j is the second
\* node of the group, 0 when only src1 is merged
NbrUpgrade(new, incremental, i, j, name) ==
    IF incremental THEN NoPlan
    ELSE IF i \notin LowUtil(new, 2, 5) THEN NoPlan
    ELSE IF j # 0 /\ (j = i \/ j \notin LowUtil(new, 2, 5)) THEN NoPlan
    ELSE LET src1      == new.nodes[i]
             tgt_group == IF j = 0 THEN <<src1>> ELSE <<src1, new.nodes[j]>>
             moving    == IF j = 0 THEN src1.pods
                          ELSE src1.pods \o new.nodes[j].pods
             need_cpu  == PodCpuSum(moving)
             need_mem  == PodMemSum(moving)
             cpu_allow == MAX_CLUSTER_CPU * Core - SumCpuCap(Workers(new))
                              + SumCpuCap(tgt_group)
             Ok(e)     == /\ e.region = src1.region
                          /\ MachineOk(e, need_cpu, need_mem, cpu_allow)
             ok        == SelectSeq(Catalog, Ok)
             cand      == [k \in 1..Len(ok) |-> Cand(ok[k], need_cpu, need_mem)]
         IN IF cand = <<>> THEN NoPlan
            ELSE LET t == FirstMin(cand, CandLess)
                     new_nd == NewNode(name, t.region, t.mt, t.vcpu * Core,
                                       t.mem, t.price, FALSE)
                     m == UpgradeMigrate(OpenNode(new, new_nd), name, moving)
                 IN IF ~IsPlan(m) THEN NoPlan
                    ELSE Checked(UpgradeClose(m,
                             [k \in 1..Len(tgt_group) |-> tgt_group[k].name]))

----------------------------------------------------------------------------
(* scheduler.py: Scheduler._reuse_nodes.  The result holds both plans (the *)
(* pods are added to the node object of cur) and whether an exception left *)
(* the function.                                                           *)

\* |a - b| / b > gap, gap = 0.05
OverGap(a, b) == 20 * Abs(a - b) > b

\* lines 278-285 for one pair of nodes: "skip" (continue), "raise"
\* (ZeroDivisionError) or "match"
ReuseTest(nd_new, nd_old) ==
    IF ~nd_old.is_existing THEN "skip"
    ELSE IF nd_old.cpu_cap = 0 THEN "raise"
    ELSE IF OverGap(nd_new.cpu_cap, nd_old.cpu_cap) THEN "skip"
    ELSE IF nd_old.mem_cap = 0 THEN "raise"
    ELSE IF OverGap(nd_new.mem_cap, nd_old.mem_cap) THEN "skip"
    ELSE IF nd_old.price = 0 THEN "raise"
    ELSE IF OverGap(nd_new.price, nd_old.price) THEN "skip"
    ELSE "match"

\* the first node of cur, in dict order, that does not "skip"; 0 if none
ReuseHit(c, nd_new) ==
    LET Hit(i) == ReuseTest(nd_new, c.nodes[i]) # "skip"
    IN IF \E i \in 1..Len(c.nodes) : Hit(i)
       THEN CHOOSE i \in 1..Len(c.nodes) : Hit(i) /\ \A j \in 1..(i - 1) : ~Hit(j)
       ELSE 0

\* lines 287-291: rebind the pods mapped to nd_new onto nd_old (of cur)
RECURSIVE ReuseRebind(_, _, _, _)
ReuseRebind(st, newName, oldName, names) ==
    IF names = {} \/ st.raised THEN st
    ELSE LET p_full == CHOOSE x \in names : TRUE
             k      == PodPos(GetNode(st.new, newName), p_full)
             nd_old == GetNode(st.cur, oldName)
         IN IF k = 0 THEN [st EXCEPT !.raised = TRUE]
            ELSE LET pod == GetNode(st.new, newName).pods[k]
                 IN IF ~CanFit(nd_old, pod) THEN [st EXCEPT !.raised = TRUE]
                    ELSE ReuseRebind(
                             [st EXCEPT
                                 !.cur = PutNode(@, AddPod(nd_old, pod, TRUE)),
                                 !.new.pod2node = MapPut(@, p_full, oldName)],
                             newName, oldName, names \ {p_full})

\* lines 274-293 for one node of list(new.nodes.values())
ReuseOne(st, nd_new) ==
    IF st.raised \/ nd_new.is_existing THEN st
    ELSE LET i == ReuseHit(st.cur, nd_new)
         IN IF i = 0 THEN st
            ELSE IF ReuseTest(nd_new, st.cur.nodes[i]) = "raise"
            THEN [st EXCEPT !.raised = TRUE]
            ELSE LET mapped == {x \in DOMAIN st.new.pod2node :
                                   st.new.pod2node[x] = nd_new.name}
                     r == ReuseRebind(st, nd_new.name, st.cur.nodes[i].name,
                                      mapped)
                 IN IF r.raised THEN r
                    ELSE [r EXCEPT !.new = DelNode(@, nd_new.name)]

RECURSIVE ReuseLoop(_, _)
ReuseLoop(st, nodes) ==
    IF nodes = <<>> THEN st
    ELSE ReuseLoop(ReuseOne(st, Head(nodes)), Tail(nodes))

\* a pass that drops one hypothesized node per call and rebinds nothing
ReuseNodesOneDrop(c, new) ==
    LET H == {i \in 1..Len(new.nodes) : ~new.nodes[i].is_existing}
    IN [cur |-> c,
        new |-> IF H = {} THEN new
                ELSE DelNode(new, new.nodes[CHOOSE i \in H :
                                               \A j \in H : i <= j].name),
        raised |-> FALSE]

ReuseNodes(c, new) ==
    ReuseLoop([cur |-> c, new |-> new, raised |-> FALSE], new.nodes)

----------------------------------------------------------------------------
(* scheduler.py: Scheduler._pack_small_nodes.  order lists the regions in  *)
(* the iteration order of the set regions_box, which decides min() on a    *)
(* tie.                                                                    *)

BIN_CAP == 8     \* bin_cap, raw vCPU

RECURSIVE UsableSum(_)
UsableSum(nodes) ==
    IF nodes = <<>> THEN 0
    ELSE Head(nodes).usable_cpu_cap + UsableSum(Tail(nodes))

RECURSIVE MemCapSum(_)
MemCapSum(nodes) ==
    IF nodes = <<>> THEN 0 ELSE Head(nodes).mem_cap + MemCapSum(Tail(nodes))

PackKey(nd) == <<Family(nd.machine_type), nd.price>>

\* lines 167-174: the keys of groups, in insertion order
RECURSIVE PackKeys(_, _)
PackKeys(nodes, seen) ==
    IF nodes = <<>> THEN seen
    ELSE IF PackKey(Head(nodes)) \in Range(seen)
         THEN PackKeys(Tail(nodes), seen)
         ELSE PackKeys(Tail(nodes), Append(seen, PackKey(Head(nodes))))

\* lines 186-195: greedy first-fit of the sorted nodes into bins
PackBinOf(bins, nd) ==
    LET Room(b) == UsableSum(bins[b]) + nd.usable_cpu_cap
                       <= BIN_CAP * Core - DEFAULT_OVERHEAD_CPU
    IN IF \E b \in 1..Len(bins) : Room(b)
       THEN CHOOSE b \in 1..Len(bins) : Room(b) /\ \A c \in 1..(b - 1) : ~Room(c)
       ELSE 0

RECURSIVE PackBins(_, _)
PackBins(bins, nodes) ==
    IF nodes = <<>> THEN bins
    ELSE LET nd == Head(nodes)
             b  == PackBinOf(bins, nd)
         IN IF b = 0 THEN PackBins(Append(bins, <<nd>>), Tail(nodes))
            ELSE PackBins([bins EXCEPT ![b] = Append(@, nd)], Tail(nodes))

\* lines 208-212
PackTarget(box, hist, order) ==
    LET regions_box == {box[i].region : i \in 1..Len(box)}
        inBox == LET In(r) == r \in regions_box IN SelectSeq(order, In)
        Less(r1, r2) == hist[r1] < hist[r2]
    IN FirstMin(inBox, Less)

\* a choice of machine type that does not look at the price
PackCandAnyPrice(box, family, price_small, target_region) ==
    LET cpu_sum == UsableSum(box)
        mem_sum == MemCapSum(box)
        Ok(e) == /\ e.region = target_region
                 /\ ~(e.vcpu > BIN_CAP \/ Family(e.mt) # family)
                 /\ PriceKnown(e)
                 /\ e.vcpu * Core - DEFAULT_OVERHEAD_CPU >= cpu_sum
                 /\ e.mem >= mem_sum
        cand == SelectSeq(Catalog, Ok)
        Less(x, y) == x.vcpu < y.vcpu \/ (x.vcpu = y.vcpu /\ x.price < y.price)
    IN IF cand = <<>> THEN NoNode ELSE FirstMin(cand, Less)

\* lines 215-230: the machine type chosen for the box, NoNode if cand is empty
PackCand(box, family, price_small, target_region) ==
    LET cpu_sum   == UsableSum(box)
        mem_sum   == MemCapSum(box)
        price_sum == price_small * Len(box)
        Ok(e) == /\ e.region = target_region
                 /\ ~(e.vcpu > BIN_CAP \/ Family(e.mt) # family)
                 /\ PriceKnown(e)
                 /\ e.vcpu * Core - DEFAULT_OVERHEAD_CPU >= cpu_sum
                 /\ e.mem >= mem_sum
                 /\ 10 * e.price <= 11 * price_sum
        cand == SelectSeq(Catalog, Ok)
        Less(x, y) == x.vcpu < y.vcpu \/ (x.vcpu = y.vcpu /\ x.price < y.price)
    IN IF cand = <<>> THEN NoNode ELSE FirstMin(cand, Less)

\* lines 240-250: the (node, pod) pairs in the order the loops visit them
RECURSIVE PackItems(_)
PackItems(box) ==
    IF box = <<>> THEN <<>>
    ELSE [k \in 1..Len(Head(box).pods) |-> <<Head(box).name, Head(box).pods[k]>>]
         \o PackItems(Tail(box))

\* lines 240-250: st = [plan, new_nd, moved, ok]
RECURSIVE PackMigrate(_, _)
PackMigrate(st, items) ==
    IF items = <<>> \/ ~st.ok THEN st
    ELSE LET nd  == GetNode(st.plan, Head(items)[1])
             pod == Head(items)[2]
         IN IF ~CanFit(st.new_nd, pod) THEN [st EXCEPT !.ok = FALSE]
            ELSE PackMigrate(
                     [st EXCEPT
                         !.plan = [PutNode(@, RmPod(nd, pod)) EXCEPT
                                      !.pod2node =
                                          MapPut(@, pod.full_name, st.new_nd.name)],
                         !.new_nd = AddPod(@, pod, TRUE),
                         !.moved = Append(@, Head(items))],
                     Tail(items))

\* lines 252-258: give the moved pods back to their nodes
RECURSIVE PackRollback(_, _)
PackRollback(p, moved) ==
    IF moved = <<>> THEN p
    ELSE LET old_nd == GetNode(p, Head(moved)[1])
             pod    == Head(moved)[2]
         IN PackRollback([PutNode(p, AddPod(old_nd, pod, TRUE)) EXCEPT
                             !.pod2node = MapPut(@, pod.full_name, old_nd.name)],
                         Tail(moved))

\* lines 261-267: close the nodes of the box
RECURSIVE PackClose(_, _)
PackClose(st, box) ==
    IF box = <<>> THEN st
    ELSE PackClose([st EXCEPT !.plan = DelNode(@, Head(box).name),
                              !.hist[Head(box).region] = @ - 1],
                   Tail(box))

\* lines 198-268 for one box: st = [plan, hist]
PackBox(st, box, family, price_small, order, avoid) ==
    IF Len(box) < 2 THEN st
    ELSE LET target_region == PackTarget(box, st.hist, order)
             t == PackCand(box, family, price_small, target_region)
         IN IF ~IsNode(t) THEN st
            ELSE LET new_name == FreshName(NodeNames(st.plan) \cup avoid)
                     new_nd == NewNode(new_name, target_region, t.mt,
                                       t.vcpu * Core, t.mem, t.price, FALSE)
                     m == PackMigrate([plan |-> st.plan, new_nd |-> new_nd,
                                       moved |-> <<>>, ok |-> TRUE],
                                      PackItems(box))
                 IN IF ~m.ok
                    THEN [st EXCEPT !.plan = PackRollback(m.plan, m.moved)]
                    ELSE LET c == PackClose([plan |-> OpenNode(m.plan, m.new_nd),
                                             hist |-> st.hist], box)
                         IN [c EXCEPT !.hist[target_region] = @ + 1]

RECURSIVE PackBoxes(_, _, _, _, _, _)
PackBoxes(st, bins, family, price_small, order, avoid) ==
    IF bins = <<>> THEN st
    ELSE PackBoxes(PackBox(st, Head(bins), family, price_small, order, avoid),
                   Tail(bins), family, price_small, order, avoid)

\* lines 177-195: one group
PackGroup(st, key, nodes, order, avoid) ==
    IF Len(nodes) < 2 THEN st
    ELSE LET Bigger(x, y) == x.usable_cpu_cap > y.usable_cpu_cap
             sorted == SortBy(nodes, Bigger)
         IN PackBoxes(st, PackBins(<<>>, sorted), key[1], key[2], order, avoid)

RECURSIVE PackGroups(_, _, _, _, _)
PackGroups(st, keys, workers, order, avoid) ==
    IF keys = <<>> THEN st
    ELSE LET Mine(nd) == PackKey(nd) = Head(keys)
         IN PackGroups(PackGroup(st, Head(keys), SelectSeq(workers, Mine),
                                 order, avoid),
                       Tail(keys), workers, order, avoid)

CatalogRegions == {Catalog[i].region : i \in 1..Len(Catalog)}

PackSmallNodes(p, order, avoid) ==
    LET workers == Workers(p)
        regions == CatalogRegions \cup {workers[i].region : i \in 1..Len(workers)}
        region_hist == [r \in regions |->
                           Cardinality({i \in 1..Len(workers) :
                                            workers[i].region = r})]
    IN PackGroups([plan |-> p, hist |-> region_hist],
                  PackKeys(workers, <<>>), workers, order, avoid).plan

----------------------------------------------------------------------------
(* The clusters the runs start from.  A live node carries what the API     *)
(* server, node_info.json and the metrics server say about it; a live pod  *)
(* its phase, its node ("none" when unbound), its requests and whether its *)
(* schedulerName is custom-scheduling.                                     *)

LNode(name, region, mt, cpu, mem, util) ==
    [name |-> name, ready |-> TRUE, meta |-> TRUE, region |-> region,
     machine_type |-> mt, cpu |-> cpu, mem |-> mem, util |-> util]

LPod(full_name, ns, phase, node, cpu, mem) ==
    [full_name |-> full_name, namespace |-> ns, phase |-> phase, node |-> node,
     cpu |-> cpu, mem |-> mem, custom |-> phase = "Pending"]

\* two workers with room, one pending pod
ClusterA ==
    [nodes |-> << LNode("master", "r1", "m-4", 80, 16, "high"),
                  LNode("wA", "r1", "m-4", 80, 16, "high"),
                  LNode("wB", "r1", "m-8", 160, 32, "high") >>,
     pods  |-> << LPod("a1", "default", "Running", "wA", 60, 4),
                  LPod("b1", "default", "Running", "wB", 60, 8),
                  LPod("b2", "default", "Running", "wB", 20, 2),
                  LPod("p1", "default", "Pending", "none", 20, 2) >>]

\* five full workers, two pending pods
ClusterB ==
    [nodes |-> << LNode("master", "r1", "m-4", 80, 16, "high"),
                  LNode("w1", "r1", "m-2", 40, 7, "high"),
                  LNode("w2", "r1", "m-2", 40, 7, "high"),
                  LNode("w3", "r1", "m-2", 40, 7, "high"),
                  LNode("w4", "r2", "m-2", 40, 7, "high"),
                  LNode("w5", "r2", "m-2", 40, 7, "high") >>,
     pods  |-> << LPod("k1", "kube-system", "Running", "w1", 40, 1),
                  LPod("k2", "kube-system", "Running", "w2", 40, 1),
                  LPod("k3", "kube-system", "Running", "w3", 40, 1),
                  LPod("k4", "kube-system", "Running", "w4", 40, 1),
                  LPod("k5", "kube-system", "Running", "w5", 40, 1),
                  LPod("p1", "default", "Pending", "none", 30, 6),
                  LPod("p2", "default", "Pending", "none", 30, 6) >>]

\* 24 cores of full workers, three pending pods
ClusterC ==
    [nodes |-> << LNode("master", "r1", "m-4", 80, 16, "high"),
                  LNode("w1", "r1", "m-8", 160, 32, "high"),
                  LNode("w2", "r1", "m-8", 160, 32, "high"),
                  LNode("w3", "r1", "m-8", 160, 32, "high") >>,
     pods  |-> << LPod("k1", "kube-system", "Running", "w1", 160, 1),
                  LPod("k2", "kube-system", "Running", "w2", 160, 1),
                  LPod("k3", "kube-system", "Running", "w3", 160, 1),
                  LPod("p1", "default", "Pending", "none", 30, 6),
                  LPod("p2", "default", "Pending", "none", 30, 6),
                  LPod("p3", "default", "Pending", "none", 30, 6) >>]

\* 24 cores of half-used workers, one pending pod that needs eight cores
ClusterD ==
    [nodes |-> << LNode("master", "r1", "m-4", 80, 16, "high"),
                  LNode("node-1", "r1", "m-8", 160, 32, "low"),
                  LNode("w1", "r1", "m-8", 160, 32, "low"),
                  LNode("w2", "r1", "m-8", 160, 32, "high") >>,
     pods  |-> << LPod("k0", "kube-system", "Running", "node-1", 80, 1),
                  LPod("k1", "kube-system", "Running", "w1", 80, 1),
                  LPod("k2", "kube-system", "Running", "w2", 80, 1),
                  LPod("d1", "default", "Running", "w2", 20, 1),
                  LPod("p1", "default", "Pending", "none", 100, 4) >>]

\* one worker short of memory, two pending pods
ClusterE ==
    [nodes |-> << LNode("master", "r1", "m-4", 80, 16, "high"),
                  LNode("w1", "r1", "c-4", 80, 5, "none") >>,
     pods  |-> << LPod("e1", "default", "Running", "w1", 20, 3),
                  LPod("q1", "default", "Pending", "none", 20, 3),
                  LPod("q2", "default", "Pending", "none", 10, 1) >>]

\* one full worker, one pending pod that needs a 4-vCPU machine, which the
\* loaded region sells cheaper
ClusterF ==
    [nodes |-> << LNode("master", "r1", "m-8", 160, 32, "high"),
                  LNode("w1", "r1", "m-8", 160, 32, "high") >>,
     pods  |-> << LPod("k1", "kube-system", "Running", "w1", 160, 1),
                  LPod("f1", "default", "Pending", "none", 50, 10) >>]

\* one worker without room, at low utilisation, and two pending pods that
\* need a machine each
ClusterG ==
    [nodes |-> << LNode("master", "r1", "m-2", 40, 8, "high"),
                  LNode("w1", "r1", "c-4", 80, 4, "low") >>,
     pods  |-> << LPod("k1", "kube-system", "Running", "w1", 70, 1),
                  LPod("g1", "default", "Pending", "none", 110, 3),
                  LPod("g2", "default", "Pending", "none", 50, 10) >>]

\* one full worker of the cheapest 8-vCPU type, and a pending pod that needs
\* a machine of that size
ClusterH ==
    [nodes |-> << LNode("master", "r1", "m-2", 40, 8, "high"),
                  LNode("w1", "r2", "m-8", 160, 32, "high") >>,
     pods  |-> << LPod("k1", "kube-system", "Running", "w1", 160, 1),
                  LPod("u1", "default", "Pending", "none", 100, 4) >>]

\* three half-used workers, one pending pod that needs a machine of its own
ClusterI ==
    [nodes |-> << LNode("master", "r1", "m-4", 80, 16, "high"),
                  LNode("w1", "r1", "m-8", 160, 32, "low"),
                  LNode("w2", "r1", "m-8", 160, 32, "low"),
                  LNode("w3", "r1", "m-8", 160, 32, "low") >>,
     pods  |-> << LPod("k1", "kube-system", "Running", "w1", 80, 1),
                  LPod("k2", "kube-system", "Running", "w2", 80, 1),
                  LPod("k3", "kube-system", "Running", "w3", 80, 1),
                  LPod("i1", "default", "Pending", "none", 100, 4) >>]

Clusters ==
    <<ClusterA, ClusterB, ClusterC, ClusterD, ClusterE, ClusterF, ClusterG,
      ClusterH, ClusterI>>

\* the orders in which a set of regions can be iterated
RegionOrders ==
    {o \in [1..Cardinality(CatalogRegions) -> CatalogRegions] :
        \A i, j \in DOMAIN o : i # j => o[i] # o[j]}

----------------------------------------------------------------------------
(* Bounds of the model *)

MaxCycles == 2        \* iterations of run_forever
MaxGap == 2           \* longest time between two cycle starts, in intervals
MaxTicks == 1         \* iterations of _consolidate_loop
N_ITER == 3           \* n_iter
SA_T0 == 1050         \* T0, in thousandths
SA_TMIN == 1000       \* Tmin, in thousandths
SA_ALPHA_PCT == 90    \* alpha, in hundredths

----------------------------------------------------------------------------
(* Initial state: the scheduler object just constructed (both threads      *)
(* about to take op_lock) over one of the clusters.                        *)

\* no call made, no thread pool opened. pool holds the phase of _apply_plan,
\* the calls submitted and not yet taken by a worker, those a worker runs,
\* and those that returned
NoCalls ==
    [dels |-> EmptyMap, cres |-> EmptyMap, ready |-> EmptyMap, reads |-> {},
     lost |-> {}, binds |-> {}, node_info |-> EmptyMap, written |-> FALSE,
     pool |-> [phase |-> "none", todo |-> {}, running |-> {},
               returned |-> {}]]

Unset == <<>>

Init ==
    /\ live \in Range(Clusters)
    /\ last_node_create_ts = 0
    /\ now = cooldown /\ last_full_ts = 0 /\ full_start_ts = 0 /\ cycle_id = 0
    /\ op_lock = "free"
    /\ pc = "wait" /\ cycles = 0
    /\ cur = NoPlan /\ pending = Unset
    /\ mode = "none" /\ queue = Unset
    /\ plan = NoPlan /\ best = NoPlan /\ still = Unset
    /\ T = 0 /\ iter = 0 /\ out = NoPlan
    /\ incPlan = NoPlan /\ stillInc = Unset
    /\ fullPlan = NoPlan /\ stillFull = Unset
    /\ chosen = NoPlan /\ chosenStill = Unset /\ doFull = FALSE
    /\ cpc = "wait" /\ ticks = 0 /\ tick_ts = 0 /\ to_remove = Unset
    /\ calls = NoCalls

\* the local state of a cycle that is over
CycleOver ==
    /\ calls' = NoCalls
    /\ cur' = NoPlan /\ pending' = Unset
    /\ mode' = "none" /\ queue' = Unset
    /\ plan' = NoPlan /\ best' = NoPlan /\ still' = Unset
    /\ T' = 0 /\ iter' = 0 /\ out' = NoPlan
    /\ incPlan' = NoPlan /\ stillInc' = Unset
    /\ fullPlan' = NoPlan /\ stillFull' = Unset
    /\ chosen' = NoPlan /\ chosenStill' = Unset /\ doFull' = FALSE

\* a lock that never blocks
CanAcquireHeld(lock) == TRUE

\* threading.Lock: acquire succeeds only on a free lock
CanAcquire(lock) == lock = "free"

----------------------------------------------------------------------------
(* scheduler.py: run_forever and _run_once *)

\* lines 79 and 87-90: the first cycle starts with the program, or, when the
\* consolidator took the lock first, as soon as its tick is over; a later
\* one interval_sec or more after the start of the cycle before it, once the
\* lock is free; now is the time at which the running or last cycle started
Sleep ==
    \E k \in 0..MaxGap :
        /\ k = 0 <=> (cycles = 0 /\ ticks = 0)
        /\ cycles = 0 /\ k > 0 => now + (k - 1) * interval_sec < tick_ts
        /\ now + k * interval_sec >= tick_ts
        /\ now' = now + k * interval_sec

\* line 81: with self.op_lock
SchedAcquire ==
    /\ pc = "wait" /\ cycles < MaxCycles
    /\ CanAcquire(op_lock)
    /\ op_lock' = "sched"
    /\ pc' = "snapshot"
    /\ cycles' = cycles + 1
    /\ calls' = NoCalls
    /\ Sleep
    /\ UNCHANGED <<live, last_node_create_ts, last_full_ts, full_start_ts,
                   cycle_id, optVars, cycleVars, consVars>>

\* a test that never skips the cycle
NoPendingNever(pods) == FALSE

\* line 99: if not pending_pods
NoPending(pods) == pods = <<>>

\* lines 97-101: snapshot, pending list, early return on an empty list
Snapshot ==
    /\ pc = "snapshot"
    /\ cur' = snapshot_cluster(live)
    /\ pending' = FetchPendingList(live)
    /\ IF NoPending(FetchPendingList(live))
       THEN pc' = "sleep" /\ UNCHANGED mode
       ELSE pc' = "optimize" /\ mode' = "incremental"
    /\ UNCHANGED <<clusterVars, cycles, queue, plan, best, still, T, iter, out,
                   incPlan, stillInc, fullPlan, stillFull, chosen, chosenStill,
                   doFull, consVars>>

\* an optimization that starts from the incremental plan once there is one
OptimizeFromIncPlan ==
    /\ pc = "optimize"
    /\ plan' = IF IsPlan(incPlan) THEN incPlan ELSE cur
    /\ still' = <<>>
    /\ pending' = SortPending(pending)
    /\ queue' = SortPending(pending)
    /\ pc' = "seed"
    /\ UNCHANGED <<clusterVars, cycles, cur, mode, best, T, iter, out,
                   incPlan, stillInc, fullPlan, stillFull, chosen, chosenStill,
                   doFull, consVars>>

\* sa_optimizer.py lines 96-97 and rfsa_optimizer.py lines 69-73: the call
\* of the seed, which clones the plan and sorts the caller's list in place
Optimize ==
    /\ pc = "optimize"
    /\ plan' = cur
    /\ still' = <<>>
    /\ pending' = SortPending(pending)
    /\ queue' = SortPending(pending)
    /\ pc' = "seed"
    /\ UNCHANGED <<clusterVars, cycles, cur, mode, best, T, iter, out,
                   incPlan, stillInc, fullPlan, stillFull, chosen, chosenStill,
                   doFull, consVars>>

\* rfsa_optimizer.py lines 75-90: one pending pod
RfsaStep ==
    /\ pc = "seed" /\ queue # <<>>
    /\ LET st == RfsaPlace([plan |-> plan, still |-> still], Head(queue))
       IN plan' = st.plan /\ still' = st.still
    /\ queue' = Tail(queue)
    /\ UNCHANGED <<clusterVars, pc, cycles, cur, pending, mode, best, T, iter,
                   out, incPlan, stillInc, fullPlan, stillFull, chosen,
                   chosenStill, doFull, consVars>>

\* rfsa_optimizer.py line 92 and sa_optimizer.py lines 99-101
SeedReturn ==
    /\ pc = "seed" /\ queue = <<>>
    /\ best' = plan
    /\ T' = SA_T0
    /\ iter' = 0
    /\ pc' = "sa"
    /\ UNCHANGED <<clusterVars, cycles, cur, pending, mode, queue, plan, still,
                   out, incPlan, stillInc, fullPlan, stillFull, chosen,
                   chosenStill, doFull, consVars>>

----------------------------------------------------------------------------
(* sa_optimizer.py: the loop of SAOptimizer.optimize.  A trial draws its  *)
(* operator from allowed_ops, which line 135 sets to move, swap, close,    *)
(* open and upgrade in both modes: one action per operator.                *)

inc_mode == mode = "incremental"

\* a trial of the inner loop is due
Trying == pc = "sa" /\ T > SA_TMIN /\ iter < N_ITER

\* line 137: incremental mode without exp_pods returns None at once
EarlyNone == inc_mode /\ ExpPods(plan) = {}

\* the names a new node of the walker may get
NewName == FreshName(NodeNames(plan) \cup NodeNames(best) \cup NodeNames(cur))

\* a trial whose best plan follows the walker
SAStepBestFollows(nbr) ==
    /\ iter' = iter + 1
    /\ IF ~IsPlan(nbr) THEN UNCHANGED <<plan, best>>
       ELSE LET E_new == energy(nbr)
                E_cur == energy(plan)
            IN \E accept \in BOOLEAN :
                  /\ (E_new <= E_cur) => accept
                  /\ plan' = IF accept THEN nbr ELSE plan
                  /\ best' = IF accept THEN nbr ELSE best
    /\ UNCHANGED <<clusterVars, pc, cycles, cur, pending, mode, queue, still,
                   T, out, incPlan, stillInc, fullPlan, stillFull, chosen,
                   chosenStill, doFull, consVars>>

\* lines 105-112: the trial ends with neighbour nbr (NoPlan for None)
SAStep(nbr) ==
    /\ iter' = iter + 1
    /\ IF ~IsPlan(nbr) THEN UNCHANGED <<plan, best>>
       ELSE LET E_new == energy(nbr)
                E_cur == energy(plan)
            IN \E accept \in BOOLEAN :
                  /\ (E_new <= E_cur) => accept
                  /\ plan' = IF accept THEN nbr ELSE plan
                  /\ best' = IF accept /\ E_new < energy(best) THEN nbr
                             ELSE best
    /\ UNCHANGED <<clusterVars, pc, cycles, cur, pending, mode, queue, still,
                   T, out, incPlan, stillInc, fullPlan, stillFull, chosen,
                   chosenStill, doFull, consVars>>

TrialMove ==
    /\ Trying
    /\ IF ExpPods(plan) = {} THEN SAStep(NoPlan)
       ELSE \E p_full \in ExpPods(plan), tgt \in 1..Len(plan.nodes) :
                SAStep(NbrMove(plan, p_full, tgt))

TrialSwap ==
    /\ Trying
    /\ IF Cardinality(ExpPods(plan)) < 2 THEN SAStep(NoPlan)
       ELSE \E p1 \in ExpPods(plan), p2 \in ExpPods(plan) :
                p1 # p2 /\ SAStep(NbrSwap(plan, p1, p2))

TrialClose ==
    /\ Trying
    /\ IF EarlyNone \/ LowUtil(plan, 1, 2) = {} THEN SAStep(NoPlan)
       ELSE \E i \in LowUtil(plan, 1, 2) : SAStep(NbrClose(plan, inc_mode, i))

TrialOpen ==
    /\ Trying
    /\ IF EarlyNone \/ pending = <<>> THEN SAStep(NoPlan)
       ELSE \E k \in 1..Len(pending) :
                SAStep(NbrOpen(plan, pending[k], NewName))

TrialUpgrade ==
    /\ Trying
    /\ IF EarlyNone \/ LowUtil(plan, 2, 5) = {} THEN SAStep(NoPlan)
       ELSE \E i \in LowUtil(plan, 2, 5) :
            \E j \in {0} \cup (LowUtil(plan, 2, 5) \ {i}) :
                SAStep(NbrUpgrade(plan, inc_mode, i, j, NewName))

\* an outer iteration that leaves T as it is
SACoolKeepsT ==
    /\ pc = "sa" /\ T > SA_TMIN /\ iter = N_ITER
    /\ T' = T
    /\ iter' = 0
    /\ UNCHANGED <<clusterVars, pc, cycles, cur, pending, mode, queue, plan,
                   best, still, out, incPlan, stillInc, fullPlan, stillFull,
                   chosen, chosenStill, doFull, consVars>>

\* line 113: T *= alpha
SACool ==
    /\ pc = "sa" /\ T > SA_TMIN /\ iter = N_ITER
    /\ T' = (T * SA_ALPHA_PCT) \div 100
    /\ iter' = 0
    /\ UNCHANGED <<clusterVars, pc, cycles, cur, pending, mode, queue, plan,
                   best, still, out, incPlan, stillInc, fullPlan, stillFull,
                   chosen, chosenStill, doFull, consVars>>

\* line 114: return best, still
SAReturn ==
    /\ pc = "sa" /\ ~(T > SA_TMIN)
    /\ out' = best
    /\ IF inc_mode THEN stillInc' = still /\ UNCHANGED stillFull
       ELSE stillFull' = still /\ UNCHANGED stillInc
    /\ plan' = NoPlan /\ best' = NoPlan /\ still' = Unset
    /\ T' = 0 /\ iter' = 0
    /\ pc' = "reuse"
    /\ UNCHANGED <<clusterVars, cycles, cur, pending, mode, queue, incPlan,
                   fullPlan, chosen, chosenStill, doFull, consVars>>

----------------------------------------------------------------------------
(* scheduler.py: the rest of _run_once *)

\* an exception that leaves the cycle with the lock still held
CycleRaisesHoldingLock ==
    /\ op_lock' = op_lock
    /\ pc' = "except"
    /\ CycleOver
    /\ UNCHANGED <<live, last_node_create_ts, clockVars, cycles, consVars>>

\* lines 80-84: an exception leaves _run_once; the with block releases the
\* lock and the except clause is entered
CycleRaises ==
    /\ op_lock' = "free"
    /\ pc' = "except"
    /\ CycleOver
    /\ UNCHANGED <<live, last_node_create_ts, clockVars, cycles, consVars>>

\* line 110: time.time() - self.last_full_ts >= self.cooldown
CooldownOver == now - last_full_ts >= cooldown

\* lines 106-110 and 122-123: reuse on inc_plan, then the cooldown test
IncReuse ==
    /\ pc = "reuse" /\ inc_mode
    /\ LET r == ReuseNodes(cur, out)
       IN IF r.raised THEN CycleRaises
          ELSE /\ cur' = r.cur
               /\ incPlan' = r.new
               /\ IF CooldownOver
                  THEN /\ mode' = "full"
                       /\ full_start_ts' = now
                       /\ pc' = "optimize"
                       /\ UNCHANGED <<chosen, chosenStill>>
                  ELSE /\ chosen' = r.new
                       /\ chosenStill' = stillInc
                       /\ pc' = "pack"
                       /\ UNCHANGED <<mode, full_start_ts>>
               /\ UNCHANGED <<live, last_node_create_ts, op_lock, now,
                              last_full_ts, cycle_id, calls, cycles, pending,
                              queue, plan, best, still, T, iter, out,
                              stillInc, fullPlan, stillFull, doFull, consVars>>

\* a comparison that always prefers the full plan
FullWinsAnyRatio(E_full, E_inc) == TRUE

\* line 116: E_full / (E_inc + 1e-8) <= self.full_threshold, on energies
\* that are whole multiples of 1/72000
FullWins(E_full, E_inc) == 100 * E_full <= FULL_THRESHOLD_PCT * E_inc

\* lines 113-121: reuse on full_plan, then the choice between the plans
FullReuse ==
    /\ pc = "reuse" /\ ~inc_mode
    /\ LET r == ReuseNodes(cur, out)
       IN IF r.raised THEN CycleRaises
          ELSE LET E_full == energy(r.new)
                   E_inc  == energy(incPlan)
                   full   == FullWins(E_full, E_inc)
               IN /\ cur' = r.cur
                  /\ fullPlan' = r.new
                  /\ doFull' = full
                  /\ chosen' = IF full THEN r.new ELSE incPlan
                  /\ chosenStill' = IF full THEN stillFull ELSE stillInc
                  /\ pc' = "pack"
                  /\ UNCHANGED <<clusterVars, cycles, pending, mode, queue,
                                 plan, best, still, T, iter, out, incPlan,
                                 stillInc, stillFull, consVars>>

\* lines 126-130; chosen_plan is inc_plan or full_plan itself
Pack ==
    /\ pc = "pack"
    /\ \E order \in RegionOrders :
          LET packed == PackSmallNodes(chosen, order, NodeNames(cur))
          IN /\ chosen' = packed
             /\ IF doFull THEN fullPlan' = packed /\ UNCHANGED incPlan
                ELSE incPlan' = packed /\ UNCHANGED fullPlan
    /\ pc' = "apply"
    /\ UNCHANGED <<clusterVars, cycles, cur, pending, optVars, stillInc,
                   stillFull, chosenStill, doFull, consVars>>

\* one call, or one group of calls, to the API server or the VM provider
Event(op, ok, pods) == [op |-> op, ok |-> ok, pods |-> pods]

\* list_pod_for_all_namespaces(field_selector="spec.nodeName=<name>")
PodsOn(lv, name) ==
    {lv.pods[i].full_name : i \in {k \in 1..Len(lv.pods) : lv.pods[k].node = name}}

\* ClusterMonitor.drain_node: cordon, which raises when the patch fails,
\* then one eviction, or a forced delete, for every pod listed on the node
DrainNode(lv, name, cordon_ok) ==
    IF ~cordon_ok THEN <<Event("cordon", FALSE, {})>>
    ELSE <<Event("cordon", TRUE, {}), Event("evict", TRUE, PodsOn(lv, name))>>

\* how a call of delete_node can end: done, cordon refused, or the
\* instance delete or its confirmation failed
DeleteOutcomes == {"ok", "cordon_fail", "destroy_fail"}

\* a delete_node that goes for the instance at once
DeleteNodeUndrained(lv, name, how) ==
    [events |-> <<Event("destroy", how = "ok", {})>>, raised |-> how # "ok"]

\* VMManager.delete_node: drain, delete the Node object, delete the instance
DeleteNode(lv, name, how) ==
    LET drain == DrainNode(lv, name, how # "cordon_fail")
    IN IF how = "cordon_fail" THEN [events |-> drain, raised |-> TRUE]
       ELSE [events |-> drain \o <<Event("delete_node_object", TRUE, {}),
                                   Event("destroy", how = "ok", {})>>,
             raised |-> how # "ok"]

\* the cluster after the calls of delete_node: a node whose cordon went
\* through is drained and its Node object is gone
DelLive(lv, names) ==
    LET KeepN(n) == n.name \notin names
        KeepP(q) == q.node \notin names
    IN [nodes |-> SelectSeq(lv.nodes, KeepN), pods |-> SelectSeq(lv.pods, KeepP)]

\* the regions of price_map, in the order of the file
RECURSIVE RegionsOf(_, _)
RegionsOf(entries, seen) ==
    IF entries = <<>> THEN seen
    ELSE IF Head(entries).region \in Range(seen)
         THEN RegionsOf(Tail(entries), seen)
         ELSE RegionsOf(Tail(entries), Append(seen, Head(entries).region))

\* lines 460-466: the regions, other than the node's, that sell its machine
\* type at its price
FallbackCand(nd) ==
    LET Same(r) == /\ r # nd.region
                   /\ \E i \in 1..Len(Catalog) :
                         /\ Catalog[i].region = r
                         /\ Catalog[i].mt = nd.machine_type
                         /\ PriceKnown(Catalog[i])
                         /\ Catalog[i].price = nd.price
    IN SelectSeq(RegionsOf(Catalog, <<>>), Same)

\* what create_node can answer
CreateErrors == {"ZONE_RESOURCE_POOL_EXHAUSTED", "QUOTA_EXCEEDED", "other"}

\* a test that lets every error start the search
FallbackOnAny(err) == TRUE

\* lines 444-446: the errors that start the search for another region
FallbackOn(err) == err \in {"ZONE_RESOURCE_POOL_EXHAUSTED", "QUOTA_EXCEEDED"}

\* lines 472-483: the candidates are tried in turn; fails of them fail
RECURSIVE FallbackLoop(_, _)
FallbackLoop(cand, fails) ==
    IF cand = <<>> THEN <<>>
    ELSE IF fails = 0 THEN <<[region |-> Head(cand), res |-> "ok"]>>
    ELSE <<[region |-> Head(cand), res |-> "other"]>>
            \o FallbackLoop(Tail(cand), fails - 1)

\* _try_create_with_fallback: first is the answer of the node's own region
TryCreateWithFallback(nd, first, fails) ==
    LET try1 == <<[region |-> nd.region, res |-> first]>>
        rest == FallbackLoop(FallbackCand(nd), fails)
    IN IF first = "ok"
       THEN [attempts |-> try1, region |-> nd.region, raised |-> FALSE]
       ELSE IF ~FallbackOn(first)
       THEN [attempts |-> try1, region |-> nd.region, raised |-> TRUE]
       ELSE IF rest # <<>> /\ rest[Len(rest)].res = "ok"
       THEN [attempts |-> try1 \o rest, region |-> rest[Len(rest)].region,
             raised |-> FALSE]
       ELSE [attempts |-> try1 \o rest, region |-> nd.region, raised |-> TRUE]

\* a plan that keeps the planned region
RelocatedNowhere(new, cre) == new

\* lines 479-480: a fallback writes the region into the node of the plan
Relocated(new, cre) ==
    LET Fix(nd) == IF nd.name \in DOMAIN cre /\ ~cre[nd.name].raised
                   THEN [nd EXCEPT !.region = cre[nd.name].region] ELSE nd
    IN [new EXCEPT !.nodes = [i \in 1..Len(new.nodes) |-> Fix(new.nodes[i])]]

\* an handler that lets the exception through
PropagatesAlways(raised) == raised

\* lines 367-368 and 382-383: _delete and _create log the exception
Propagates(raised) == FALSE

\* lines 377-381: the entries _create puts into node_info
NodeInfoOf(new, cre) ==
    LET made == {n \in DOMAIN cre : ~cre[n].raised}
    IN [n \in made |-> [machine_type |-> GetNode(new, n).machine_type,
                        region |-> GetNode(new, n).region]]

\* lines 374-393: the nodes that were created, as the cluster shows them
CreatedNodes(new, info, rd) ==
    LET Made(nd) == nd.name \in DOMAIN info
        made == SelectSeq(new.nodes, Made)
    IN [i \in 1..Len(made) |->
           [LNode(made[i].name, info[made[i].name].region,
                  info[made[i].name].machine_type,
                  made[i].cpu_cap, made[i].mem_cap, "high")
               EXCEPT !.ready = rd[made[i].name]]]

\* lines 396-415: the pods that are read, those the plan puts on another
\* node than the old plan did
ReadPods(old, new) ==
    {x \in DOMAIN new.pod2node :
        ~(x \in DOMAIN old.pod2node /\ old.pod2node[x] = new.pod2node[x])}

\* a bind loop that does not look at the pod it has read
BindCallsAnyPhase(pods, old, new, lost) ==
    {<<pods[i].full_name, new.pod2node[pods[i].full_name]>> :
        i \in {k \in 1..Len(pods) :
                  pods[k].full_name \in ReadPods(old, new) \ lost}}

\* lines 396-423: the binds, one for each pod that is read, found (lost
\* holds the pods whose read answers 404 or 410) and still Pending and
\* unbound
BindCalls(pods, old, new, lost) ==
    LET Due(q) == /\ q.full_name \in ReadPods(old, new) \ lost
                  /\ q.phase = "Pending" /\ q.node = "none"
    IN {<<pods[i].full_name, new.pod2node[pods[i].full_name]>> :
           i \in {k \in 1..Len(pods) : Due(pods[k])}}

\* the pods of the cluster without those that are gone
WithoutPods(pods, lost) ==
    LET Keep(q) == q.full_name \notin lost IN SelectSeq(pods, Keep)

\* the pods after the calls of bind_pod
BindPods(pods, binds) ==
    LET Bind(q) == IF \E b \in binds : b[1] = q.full_name
                   THEN [q EXCEPT !.node =
                            (CHOOSE b \in binds : b[1] = q.full_name)[2]]
                   ELSE q
    IN [i \in 1..Len(pods) |-> Bind(pods[i])]

\* the ways the provider and the cluster can answer for the nodes to create:
\* the answer of the planned region, the number of fallback regions that
\* fail, and whether the node is Ready within the timeout
RECURSIVE CreateAnswers(_, _)
CreateAnswers(new, names) ==
    IF names = {} THEN {EmptyMap}
    ELSE LET n  == CHOOSE x \in names : TRUE
             nd == GetNode(new, n)
             One == {a \in [first : {"ok"} \cup CreateErrors,
                            fails : 0..Len(FallbackCand(nd)),
                            ready : BOOLEAN] :
                        /\ ~FallbackOn(a.first) => a.fails = 0
                        /\ a.ready =>
                             ~TryCreateWithFallback(nd, a.first, a.fails).raised}
         IN {MapPut(f, n, a) : f \in CreateAnswers(new, names \ {n}), a \in One}

\* ThreadPoolExecutor(max_workers=2), lines 370 and 385
max_workers == 2

\* lines 354-371: pending_delete is submitted to the first pool
PoolDeletes ==
    /\ pc = "apply"
    /\ calls.pool.phase = "none"
    /\ calls' = [calls EXCEPT !.pool =
                    [phase |-> "delete", running |-> {}, returned |-> {},
                     todo |-> NodeNames(cur) \ NodeNames(chosen)]]
    /\ UNCHANGED <<live, last_node_create_ts, clockVars, op_lock, schedVars,
                   consVars>>

\* a free worker of the pool takes the next call, _delete or _create
PoolStart ==
    /\ pc = "apply"
    /\ calls.pool.phase \in {"delete", "create"}
    /\ Cardinality(calls.pool.running) < max_workers
    /\ \E n \in calls.pool.todo :
          calls' = [calls EXCEPT !.pool.todo = @ \ {n},
                                 !.pool.running = @ \cup {n}]
    /\ UNCHANGED <<live, last_node_create_ts, clockVars, op_lock, schedVars,
                   consVars>>

\* lines 361-368 and 374-383: a call returns, done or failed and logged
PoolReturn ==
    /\ pc = "apply"
    /\ \E n \in calls.pool.running :
          calls' = [calls EXCEPT !.pool.running = @ \ {n},
                                 !.pool.returned = @ \cup {n}]
    /\ UNCHANGED <<live, last_node_create_ts, clockVars, op_lock, schedVars,
                   consVars>>

\* a pool that is closed while a call still runs
PoolCreatesEarly ==
    /\ pc = "apply"
    /\ calls.pool.phase = "delete"
    /\ calls.pool.todo = {}
    /\ calls' = [calls EXCEPT !.pool.phase = "create",
                              !.pool.todo = NodeNames(chosen) \ NodeNames(cur)]
    /\ UNCHANGED <<live, last_node_create_ts, clockVars, op_lock, schedVars,
                   consVars>>

\* lines 370-386: the with block of the first pool ends when every call
\* has returned, then pending_create is submitted to the second pool
PoolCreates ==
    /\ pc = "apply"
    /\ calls.pool.phase = "delete"
    /\ calls.pool.todo = {} /\ calls.pool.running = {}
    /\ calls' = [calls EXCEPT !.pool.phase = "create",
                              !.pool.todo = NodeNames(chosen) \ NodeNames(cur)]
    /\ UNCHANGED <<live, last_node_create_ts, clockVars, op_lock, schedVars,
                   consVars>>

\* _apply_plan(cur_plan, chosen_plan), line 132: the end of the with block
\* of the second pool, the Ready waits, the binds and the write of
\* node_info.json. What the calls of the two pools did is drawn here: op_lock
\* keeps the other thread away from the cluster until the apply is over.
Apply ==
    /\ pc = "apply"
    /\ calls.pool.phase = "create"
    /\ calls.pool.todo = {} /\ calls.pool.running = {}
    /\ LET pending_delete == NodeNames(cur) \ NodeNames(chosen)
           pending_create == NodeNames(chosen) \ NodeNames(cur)
       IN \E dh \in [pending_delete -> DeleteOutcomes] :
          \E ca \in CreateAnswers(chosen, pending_create) :
          \E lost \in SUBSET ReadPods(cur, chosen) :
             LET del == [n \in pending_delete |-> DeleteNode(live, n, dh[n])]
                 cre == [n \in pending_create |->
                            TryCreateWithFallback(GetNode(chosen, n),
                                                  ca[n].first, ca[n].fails)]
                 rd  == [n \in pending_create |-> ca[n].ready]
                 gone  == DelLive(live, {n \in pending_delete :
                                            dh[n] # "cordon_fail"})
                 new   == Relocated(chosen, cre)
                 info  == NodeInfoOf(new, cre)
                 lv1   == [nodes |-> gone.nodes \o CreatedNodes(new, info, rd),
                           pods  |-> gone.pods]
                 binds == BindCalls(lv1.pods, cur, new, lost)
                 stop  == \/ \E n \in pending_delete : Propagates(del[n].raised)
                          \/ \E n \in pending_create : Propagates(cre[n].raised)
             IN IF stop
                THEN /\ live' = lv1
                     /\ op_lock' = "free"
                     /\ pc' = "except"
                     /\ CycleOver
                     /\ UNCHANGED <<last_node_create_ts, clockVars, cycles>>
                ELSE /\ live' = [lv1 EXCEPT !.pods =
                                 BindPods(WithoutPods(@, lost), binds)]
                     /\ chosen' = new
                     /\ calls' = [dels |-> [n \in pending_delete |-> del[n].events],
                                  cres |-> [n \in pending_create |-> cre[n].attempts],
                                  ready |-> rd, reads |-> ReadPods(cur, new),
                                  lost |-> lost, binds |-> binds,
                                  node_info |-> info, written |-> TRUE,
                                  pool |-> [calls.pool EXCEPT
                                               !.phase = "bind"]]
                     /\ last_node_create_ts' =
                            IF pending_create # {} THEN now
                            ELSE last_node_create_ts
                     /\ pc' = "history"
                     /\ UNCHANGED <<clockVars, op_lock, cycles, cur, pending,
                                    optVars, incPlan, stillInc, fullPlan,
                                    stillFull, chosenStill, doFull>>
    /\ UNCHANGED consVars

\* lines 134-144
History ==
    /\ pc = "history"
    /\ last_full_ts' = IF doFull THEN now ELSE last_full_ts
    /\ cycle_id' = cycle_id + 1
    /\ pc' = "sleep"
    /\ UNCHANGED <<live, last_node_create_ts, op_lock, now, full_start_ts,
                   calls, cycles, optVars, cycleVars, consVars>>

\* line 83 and the end of the with block
Release ==
    /\ pc = "sleep"
    /\ op_lock' = "free"
    /\ pc' = "wait"
    /\ CycleOver
    /\ UNCHANGED <<live, last_node_create_ts, clockVars, cycles, consVars>>

----------------------------------------------------------------------------
(* scheduler.py: _consolidate_loop *)

\* line 83: the scheduler holds the lock for 10 s after _run_once, so that
\* a tick starts that long, or longer, after the start of the last cycle
TickDelays == {HOLD_SEC, creation_block_sec}

\* lines 541 and 577: with self.op_lock, sleep_sec or more after the tick
\* before
ConsAcquire ==
    /\ cpc = "wait" /\ ticks < MaxTicks
    /\ CanAcquire(op_lock)
    /\ op_lock' = "cons"
    /\ cpc' = "check"
    /\ ticks' = ticks + 1
    /\ calls' = NoCalls
    /\ \E d \in TickDelays :
          /\ ticks > 0 => now + d >= tick_ts + sleep_sec
          /\ tick_ts' = now + d
    /\ UNCHANGED <<live, last_node_create_ts, clockVars, schedVars, to_remove>>

\* a with block that is left without releasing the lock
ConsLeaveHoldingLock ==
    /\ op_lock' = op_lock
    /\ cpc' = "wait"
    /\ to_remove' = Unset

\* continue, or an exception, inside the with block: the lock is released
ConsLeave ==
    /\ op_lock' = "free"
    /\ cpc' = "wait"
    /\ to_remove' = Unset

\* a test that never skips the tick
CreationBlockedNever(t, last) == FALSE

\* line 542: time.time() - self.last_node_create_ts < creation_block_sec
CreationBlocked(t, last) == t - last < creation_block_sec

\* lines 542-543: the tick is skipped while a node creation is recent
ConsCheck ==
    /\ cpc = "check"
    /\ IF CreationBlocked(tick_ts, last_node_create_ts) THEN ConsLeave
       ELSE cpc' = "scan" /\ UNCHANGED <<op_lock, to_remove>>
    /\ UNCHANGED <<live, last_node_create_ts, clockVars, calls, schedVars,
                   ticks, tick_ts>>

\* get_node_cpu_util of the node, as the metrics server has it
UtilOf(lv, name) ==
    LET Is(n) == n.name = name
    IN Head(SelectSeq(lv.nodes, Is)).util

\* lines 544-551.  to_remove is unbound when the plan has no node and the
\* comparison raises when a reading is None.
ConsScan ==
    /\ cpc = "scan"
    /\ LET p == snapshot_cluster(live)
           Cand2(nd) == nd.name \notin {"master", "node-1"}
           cands == SelectSeq(p.nodes, Cand2)
           Low(nd) == UtilOf(live, nd.name) = "low"
           low == SelectSeq(cands, Low)
       IN IF p.nodes = <<>> THEN ConsLeave
          ELSE IF \E i \in 1..Len(cands) : UtilOf(live, cands[i].name) = "none"
          THEN ConsLeave
          ELSE IF low = <<>> THEN ConsLeave
          ELSE /\ to_remove' = [i \in 1..Len(low) |-> low[i].name]
               /\ cpc' = "delete"
               /\ UNCHANGED op_lock
    /\ UNCHANGED <<live, last_node_create_ts, clockVars, calls, schedVars,
                   ticks, tick_ts>>

\* lines 553-573: _close_idle_node for every node of to_remove, and the
\* history row
ConsDelete ==
    /\ cpc = "delete"
    /\ \E dh \in [Range(to_remove) -> DeleteOutcomes] :
          LET del == [n \in Range(to_remove) |-> DeleteNode(live, n, dh[n])]
          IN /\ live' = DelLive(live, {n \in Range(to_remove) :
                                          dh[n] # "cordon_fail"})
             /\ calls' = [NoCalls EXCEPT
                             !.dels = [n \in Range(to_remove) |-> del[n].events]]
    /\ ConsLeave
    /\ UNCHANGED <<last_node_create_ts, clockVars, schedVars, ticks, tick_ts>>

----------------------------------------------------------------------------

\* the scheduler is inside _run_once or the sleep that follows it; the
\* consolidator is inside the with block of a tick
SchedInCycle ==
    pc \in {"snapshot", "optimize", "seed", "sa", "reuse", "pack", "apply",
            "history", "sleep"}

ConsInTick == cpc \in {"check", "scan", "delete"}

\* lines 84-90: the except clause logs the exception and the loop goes on
Except ==
    /\ pc = "except"
    /\ pc' = "wait"
    /\ UNCHANGED <<clusterVars, cycles, optVars, cycleVars, consVars>>

Next ==
    \/ SchedAcquire \/ Snapshot \/ Optimize \/ RfsaStep \/ SeedReturn
    \/ TrialMove \/ TrialSwap \/ TrialClose \/ TrialOpen \/ TrialUpgrade
    \/ SACool \/ SAReturn
    \/ IncReuse \/ FullReuse \/ Pack
    \/ PoolDeletes \/ PoolStart \/ PoolReturn \/ PoolCreates
    \/ Apply \/ History \/ Release \/ Except
    \/ ConsAcquire \/ ConsCheck \/ ConsScan \/ ConsDelete

Spec == Init /\ [][Next]_vars

\* a step of the loop of SAOptimizer.optimize
SALoop ==
    \/ TrialMove \/ TrialSwap \/ TrialClose \/ TrialOpen \/ TrialUpgrade
    \/ SACool \/ SAReturn

\* a step of the thread of _consolidate_loop inside a tick
ConsProgress == ConsInTick /\ cpc' \in {"wait", "check", "scan", "delete"}

\* both threads keep running: the scheduler goes on with the loop of
\* optimize, leaves its except clause and, with the lock free, takes it for
\* the next cycle, and the consolidator does not stop inside a tick
FairSpec ==
    /\ Spec
    /\ WF_vars(SALoop) /\ WF_vars(Except) /\ WF_vars(SchedAcquire)
    /\ WF_cpc(ConsProgress)

\* FairSpec, with every step of a cycle taken in the end and a consolidator
\* that takes the free lock. The calls to the cluster and the VM provider
\* return: the snapshot, the seeding, _reuse_nodes, _pack_small_nodes and
\* _apply_plan are left.
LockSpec ==
    /\ FairSpec
    /\ WF_vars(Optimize) /\ WF_vars(SeedReturn) /\ WF_vars(IncReuse)
    /\ WF_vars(PoolDeletes) /\ WF_vars(PoolStart) /\ WF_vars(PoolReturn)
    /\ WF_vars(PoolCreates) /\ WF_vars(History) /\ WF_vars(Release)
    /\ WF_pc(/\ pc \in {"snapshot", "seed", "reuse", "pack", "apply"}
             /\ pc' \in {"optimize", "seed", "sa", "reuse", "pack", "apply",
                        "history", "sleep", "except"})
    /\ WF_vars(ConsAcquire)

----------------------------------------------------------------------------
(* Properties *)

\* the plans the scheduler holds in a state
AllPlans ==
    {p \in {cur, plan, best, out, incPlan, fullPlan, chosen} : IsPlan(p)}

NonMaster(p) == {i \in 1..Len(p.nodes) : p.nodes[i].name # "master"}

\* C1: a scheduler cycle and a consolidator tick are never in progress at
\* the same time; each runs while its thread holds op_lock.
C1_MutualExclusion ==
    /\ ~(SchedInCycle /\ ConsInTick)
    /\ SchedInCycle => op_lock = "sched"
    /\ ConsInTick => op_lock = "cons"

\* the consolidator stands at the lock while a plan with node changes is
\* being applied
C1_Witness ==
    /\ pc = "apply" /\ NodeNames(cur) # NodeNames(chosen)
    /\ cpc = "wait" /\ ticks < MaxTicks

\* C2: in every plan, every non-master node has cpu_used <= usable_cpu_cap
\* and mem_used <= mem_cap.
C2_WithinCapacity ==
    \A p \in AllPlans : \A i \in NonMaster(p) :
        /\ p.nodes[i].cpu_used <= p.nodes[i].usable_cpu_cap
        /\ p.nodes[i].mem_used <= p.nodes[i].mem_cap

\* a pending pod was added to a node and filled it exactly
C2_Witness ==
    /\ pc = "sa"
    /\ \E i \in NonMaster(plan) :
          /\ plan.nodes[i].cpu_used = plan.nodes[i].usable_cpu_cap
          /\ \E k \in 1..Len(plan.nodes[i].pods) : plan.nodes[i].pods[k].is_new

\* C3: from a snapshot with at most MAX_WORKER_NODES non-master nodes, every
\* plan has at most MAX_WORKER_NODES non-master nodes.
C3_WorkerCap ==
    (IsPlan(cur) /\ Len(Workers(cur)) <= MAX_WORKER_NODES)
        => \A p \in AllPlans : Len(Workers(p)) <= MAX_WORKER_NODES

\* the seed opened the last node allowed and left a pod pending
C3_Witness ==
    /\ pc = "sa"
    /\ Len(Workers(cur)) < MAX_WORKER_NODES
    /\ Len(Workers(plan)) = MAX_WORKER_NODES
    /\ still # <<>>

\* C4: from a snapshot whose non-master nodes have at most MAX_CLUSTER_CPU
\* cores in total, every plan has at most MAX_CLUSTER_CPU cores of non-master
\* cpu_cap in total.
C4_CpuCap ==
    (IsPlan(cur) /\ SumCpuCap(Workers(cur)) <= MAX_CLUSTER_CPU * Core)
        => \A p \in AllPlans :
               SumCpuCap(Workers(p)) <= MAX_CLUSTER_CPU * Core

\* C5: in every plan, every pod in the resident list of a node is mapped by
\* pod2node to that node.
C5_ListedIsMapped ==
    \A p \in AllPlans : \A i \in 1..Len(p.nodes) :
        \A k \in 1..Len(p.nodes[i].pods) :
            LET x == p.nodes[i].pods[k].full_name
            IN x \in DOMAIN p.pod2node /\ p.pod2node[x] = p.nodes[i].name

\* the walker holds a pod on a node opened for it while the node the seed
\* had put it on is still in the plan
C5_Witness ==
    /\ pc = "sa"
    /\ \E x \in DOMAIN plan.pod2node \cap DOMAIN best.pod2node :
          /\ plan.pod2node[x] # best.pod2node[x]
          /\ ~HasNode(best, plan.pod2node[x])
          /\ HasNode(plan, best.pod2node[x])

\* how often the node lists the pod
Listed(nd, x) == Cardinality({k \in 1..Len(nd.pods) : nd.pods[k].full_name = x})

\* C6: in every plan, for every entry p -> n of pod2node the node n is in
\* the plan and lists p exactly once.
C6_MappedIsListed ==
    \A p \in AllPlans : \A x \in DOMAIN p.pod2node :
        /\ HasNode(p, p.pod2node[x])
        /\ Listed(GetNode(p, p.pod2node[x]), x) = 1

\* C7: the plan optimize returns in incremental mode has every pod of the
\* input plan on the node the input plan has it on.
C7_OldPodsStay ==
    (pc = "reuse" /\ inc_mode)
        => \A x \in DOMAIN cur.pod2node :
               x \in DOMAIN out.pod2node /\ out.pod2node[x] = cur.pod2node[x]

\* C8: in incremental mode every node of the input plan is in the walker,
\* in the best plan and in the plan optimize returns.
C8_IncKeepsNodes ==
    /\ (pc = "sa" /\ inc_mode)
           => /\ NodeNames(cur) \subseteq NodeNames(plan)
              /\ NodeNames(cur) \subseteq NodeNames(best)
    /\ (pc = "reuse" /\ inc_mode) => NodeNames(cur) \subseteq NodeNames(out)

\* incremental optimize returned a plan that differs from its input on
\* pods that were placed already and that has a node close could pick
C8_Witness ==
    /\ pc = "reuse" /\ inc_mode
    /\ LowUtil(out, 1, 2) # {}
    /\ \E x \in DOMAIN cur.pod2node : out.pod2node[x] # cur.pod2node[x]

\* still_pending st is exactly the pods of pend without an entry in the
\* pod2node of p, and a pod with an entry is on exactly one node
StillExact(p, st, pend) ==
    /\ Range(st) \subseteq Range(pend)
    /\ \A k \in 1..Len(pend) :
          LET x == pend[k].full_name
          IN IF pend[k] \in Range(st) THEN x \notin DOMAIN p.pod2node
             ELSE /\ x \in DOMAIN p.pod2node
                  /\ Cardinality({i \in 1..Len(p.nodes) :
                                      Listed(p.nodes[i], x) > 0}) = 1

\* C9: the seed and the SA optimizer return as still_pending exactly the
\* pending pods that the returned plan does not place.
C9_StillPendingExact ==
    /\ (pc = "seed" /\ queue = <<>>) => StillExact(plan, still, pending)
    /\ (pc = "reuse")
           => StillExact(out, IF inc_mode THEN stillInc ELSE stillFull, pending)

\* key k is below key b in the lexicographic order on (cpu_ratio, suit)
KeyLessRatio(k, b) ==
    \/ k.ratio_num * b.ratio_den < b.ratio_num * k.ratio_den
    \/ /\ k.ratio_num * b.ratio_den = b.ratio_num * k.ratio_den
       /\ SuitLess(k.suit, b.suit)

\* the non-master nodes of p that can fit the pod
Fits(p, pod) == {i \in NonMaster(p) : CanFit(p.nodes[i], pod)}

\* C10: when the seed places a pod that some non-master node can fit, it
\* opens no node and puts the pod on a node that minimizes
\* (cpu_ratio_after, suit) among the nodes that can fit it.
C10_FitExistingFirst ==
    [][(pc = "seed" /\ queue # <<>> /\ queue' = Tail(queue)
            /\ Fits(plan, Head(queue)) # {})
         => LET pod == Head(queue)
            IN /\ NodeNames(plan') = NodeNames(plan)
               /\ pod.full_name \in DOMAIN plan'.pod2node
               /\ \E i \in Fits(plan, pod) :
                     /\ plan'.pod2node[pod.full_name] = plan.nodes[i].name
                     /\ \A j \in Fits(plan, pod) :
                            ~KeyLessRatio(FitKey(plan.nodes[j], pod),
                                          FitKey(plan.nodes[i], pod))]_vars

\* C13: in a cycle with pending pods the full-mode plan is the one packed
\* and applied exactly when the cooldown has elapsed and, on the energies
\* taken after reuse, E_full / E_inc <= full_threshold; otherwise the
\* incremental plan is.
C13_FullIffCooldownAndRatio ==
    /\ pc = "pack" =>
          LET ran  == IsPlan(fullPlan)
              full == /\ now - last_full_ts >= cooldown
                      /\ ran
                      /\ 100 * energy(fullPlan)
                             <= FULL_THRESHOLD_PCT * energy(incPlan)
          IN /\ ran <=> now - last_full_ts >= cooldown
             /\ doFull <=> full
             /\ chosen = IF full THEN fullPlan ELSE incPlan
    /\ pc = "apply" => chosen = IF doFull THEN fullPlan ELSE incPlan

\* the full plan won against a different incremental plan
C13_Witness ==
    /\ pc = "pack" /\ doFull
    /\ NodeNames(fullPlan) # NodeNames(incPlan)

\* C14: a full-mode optimization starts only when at least cooldown seconds
\* have passed since the previous full-mode optimization started and since
\* last_full_ts.
C14_FullRunsCooldownApart ==
    [][(pc = "reuse" /\ pc' = "optimize")
          => /\ now - full_start_ts >= cooldown
             /\ now - last_full_ts >= cooldown]_vars

\* C15: a cycle that finds no pending pod goes straight to its end, makes
\* no delete, create or bind call, does not write node_info and leaves the
\* cluster, last_full_ts, last_node_create_ts and cycle_id as they are.
C15_EmptyCycleNoEffect ==
    [][/\ (pc = "snapshot" /\ FetchPendingList(live) = <<>>)
            => (pc' = "sleep" /\ calls' = NoCalls
                /\ UNCHANGED <<live, last_node_create_ts, last_full_ts, cycle_id>>)
       /\ (pc = "sleep" /\ pending = <<>>)
            => (pc' \in {"sleep", "wait"} /\ calls' = NoCalls
                /\ UNCHANGED <<live, last_node_create_ts, last_full_ts,
                               cycle_id>>)]_vars

\* a cycle without pending pods, after a cycle that applied a plan
C15_Witness ==
    /\ pc = "sleep" /\ pending = <<>> /\ cycle_id > 0

\* the seed handles the pod at the head of its queue
SeedVisits == pc = "seed" /\ queue # <<>> /\ queue' = Tail(queue)

\* the pending pods the plan does not place
Unplaced(p) ==
    {k \in 1..Len(pending) : pending[k].full_name \notin DOMAIN p.pod2node}

\* C11: on a plan that has MAX_WORKER_NODES non-master nodes, RFSA opens no
\* node for a pod that fits nowhere: the plan stays as it is and the pod
\* goes to still_pending; the SA open move yields no neighbour, and no
\* trial of the walk adds a node to the plan or places an unplaced pod.
C11_AtWorkerCapNoOpen ==
    [][/\ (SeedVisits /\ Cardinality(NonMaster(plan)) = MAX_WORKER_NODES
               /\ Fits(plan, Head(queue)) = {})
            => /\ plan' = plan
               /\ still' = Append(still, Head(queue))
       /\ (pc = "sa" /\ Cardinality(NonMaster(plan)) = MAX_WORKER_NODES)
            => /\ \A k \in 1..Len(pending) :
                      ~IsPlan(NbrOpen(plan, pending[k], NewName))
               /\ pc' = "sa" =>
                      /\ ~(/\ NodeNames(plan) \subseteq NodeNames(plan')
                           /\ NodeNames(plan') # NodeNames(plan))
                      /\ Unplaced(plan) \subseteq Unplaced(plan')]_vars

\* the walk has tried moves on a plan at the node limit while a pod that
\* fits on none of its nodes is in still_pending
C11_Witness ==
    /\ pc = "sa" /\ iter > 0
    /\ Cardinality(NonMaster(plan)) = MAX_WORKER_NODES
    /\ \E k \in 1..Len(still) :
          /\ still[k].full_name \notin DOMAIN plan.pod2node
          /\ Fits(plan, still[k]) = {}

\* the catalog entries open-new may take for the pod
Eligible(p, pod) ==
    {i \in 1..Len(Catalog) :
        /\ Catalog[i].vcpu * Core - DEFAULT_OVERHEAD_CPU >= pod.cpu
        /\ Catalog[i].mem >= pod.mem
        /\ Catalog[i].price > 0
        /\ Cardinality(NonMaster(p)) < MAX_WORKER_NODES
        /\ SumCpuCap(Workers(p)) + Catalog[i].vcpu * Core
               <= MAX_CLUSTER_CPU * Core}

EntrySuit(pod, i) ==
    Suit(pod.cpu, pod.mem, Catalog[i].vcpu * Core, Catalog[i].mem)

\* entry i is before entry j in the order (cpu_left, suit, price, node
\* count of the region)
EntryBefore(p, pod, i, j) ==
    LET ei == Catalog[i]
        ej == Catalog[j]
    IN \/ ei.vcpu < ej.vcpu
       \/ /\ ei.vcpu = ej.vcpu
          /\ \/ SuitLess(EntrySuit(pod, i), EntrySuit(pod, j))
             \/ /\ SuitEq(EntrySuit(pod, i), EntrySuit(pod, j))
                /\ \/ ei.price < ej.price
                   \/ /\ ei.price = ej.price
                      /\ RegionLoad(p, ei.region) < RegionLoad(p, ej.region)

ApplyStep == pc = "apply" /\ pc' # "apply"

\* the create calls logged in c for node n ended with a success
CreateDone(c, n) == c.cres[n][Len(c.cres[n])].res = "ok"

\* the calls of delete_node logged in c for node n all went through
DeleteDone(c, n) == \A k \in 1..Len(c.dels[n]) : c.dels[n][k].ok

\* the pods of the cluster that the plan places anew and that are Pending
\* and unbound
DuePods(lv, old, new) ==
    {lv.pods[i].full_name : i \in
        {k \in 1..Len(lv.pods) :
            /\ lv.pods[k].phase = "Pending" /\ lv.pods[k].node = "none"
            /\ lv.pods[k].full_name \in DOMAIN new.pod2node
            /\ ~(/\ lv.pods[k].full_name \in DOMAIN old.pod2node
                 /\ old.pod2node[lv.pods[k].full_name]
                        = new.pod2node[lv.pods[k].full_name])}}

\* C16: in apply the failure of a delete or of a create stays with its node:
\* every node to delete gets its cordon call and every node to create a
\* create call in its planned region, a node whose calls all succeed is gone
\* or is there, every pod that is due is bound, node_info is written and the
\* cycle goes on to its history row.
C16_FailureStaysWithNode ==
    [][ApplyStep =>
        LET del == NodeNames(cur) \ NodeNames(chosen)
            cre == NodeNames(chosen) \ NodeNames(cur)
        IN /\ pc' = "history"
           /\ DOMAIN calls'.dels = del
           /\ \A n \in del :
                 /\ calls'.dels[n] # <<>> /\ calls'.dels[n][1].op = "cordon"
                 /\ DeleteDone(calls', n) =>
                       \A k \in 1..Len(live'.nodes) : live'.nodes[k].name # n
           /\ DOMAIN calls'.cres = cre
           /\ \A n \in cre :
                 /\ calls'.cres[n] # <<>>
                 /\ calls'.cres[n][1].region = GetNode(chosen, n).region
                 /\ CreateDone(calls', n) =>
                       /\ n \in DOMAIN calls'.node_info
                       /\ \E k \in 1..Len(live'.nodes) : live'.nodes[k].name = n
           /\ \A q \in DuePods(live, cur, chosen) \ calls'.lost :
                 <<q, chosen.pod2node[q]>> \in calls'.binds
           /\ calls'.written]_vars

\* an apply is over in which one node was created, the creation of another
\* failed in its region and in every fallback region, the pods were bound
\* and node_info was written
C16_Witness ==
    /\ pc = "history" /\ calls.written /\ calls.binds # {}
    /\ \E n, m \in DOMAIN calls.cres :
          /\ n # m /\ CreateDone(calls, m)
          /\ ~CreateDone(calls, n) /\ Len(calls.cres[n]) >= 2
\* C17: a create is attempted in a second region only after the planned
\* region answered ZONE_RESOURCE_POOL_EXHAUSTED or QUOTA_EXCEEDED; after any
\* other error the one attempt in the planned region is the only one, and
\* the node is not created.
C17_FallbackOnlyOnExhaustion ==
    \A n \in DOMAIN calls.cres :
        /\ Len(calls.cres[n]) >= 2 =>
              calls.cres[n][1].res \in {"ZONE_RESOURCE_POOL_EXHAUSTED",
                                        "QUOTA_EXCEEDED"}
        /\ calls.cres[n][1].res = "other" =>
              /\ Len(calls.cres[n]) = 1
              /\ n \notin DOMAIN calls.node_info

\* the planned region answered with another error for a node that other
\* regions sell at the same price
C17_Witness ==
    /\ pc = "history"
    /\ \E n \in DOMAIN calls.cres :
          /\ calls.cres[n][1].res = "other"
          /\ FallbackCand(GetNode(chosen, n)) # <<>>
\* the regions of the catalog that list machine type mt at this price
SamePriceRegions(mt, price) ==
    {Catalog[i].region : i \in {k \in 1..Len(Catalog) :
                                   Catalog[k].mt = mt /\ Catalog[k].price = price}}

\* C18: the attempts after the one in the planned region go, one region at
\* a time and no region twice, to other regions that list the node's
\* machine type at its planned price; no attempt follows a success; after a
\* success the node of the plan and its node_info entry carry the region of
\* the successful attempt; without a success, all such regions having been
\* tried after an exhaustion error, the node gets no node_info entry.
C18_FallbackSamePriceInTurn ==
    [][ApplyStep =>
        \A n \in NodeNames(chosen) \ NodeNames(cur) :
            LET a    == calls'.cres[n]
                nd   == GetNode(chosen, n)
                same == SamePriceRegions(nd.machine_type, nd.price) \ {nd.region}
            IN /\ \A k \in 2..Len(a) : a[k].region \in same
               /\ \A j, k \in 1..Len(a) : j < k => a[j].region # a[k].region
               /\ \A k \in 1..(Len(a) - 1) : a[k].res # "ok"
               /\ IF CreateDone(calls', n)
                  THEN /\ GetNode(chosen', n).region = a[Len(a)].region
                       /\ calls'.node_info[n].region = a[Len(a)].region
                  ELSE /\ n \notin DOMAIN calls'.node_info
                       /\ a[1].res # "other" =>
                             {a[k].region : k \in 2..Len(a)} = same]_vars

\* a node was created in the second fallback region after the planned
\* region and the first fallback region failed
C18_Witness ==
    /\ pc = "history"
    /\ \E n \in DOMAIN calls.cres :
          /\ Len(calls.cres[n]) = 3 /\ CreateDone(calls, n)
          /\ GetNode(chosen, n).region = calls.cres[n][3].region
          /\ calls.node_info[n].region = calls.cres[n][3].region
\* the step of the consolidator that closes the idle nodes
ConsStep == cpc = "delete" /\ cpc' # "delete"

\* the calls e made for one node ask for the instance to be destroyed
Destroys(e) == \E k \in 1..Len(e) : e[k].op = "destroy"

\* C19: when apply or the consolidator asks the provider to destroy the
\* instance of a node, the cordon of the node went through before and,
\* after it and before the request, an eviction or forced delete was
\* attempted for each pod that was on the node; a node whose cordon fails
\* gets no such request.
C19_DrainBeforeDestroy ==
    [][ApplyStep \/ ConsStep =>
        \A n \in DOMAIN calls'.dels :
            LET e  == calls'.dels[n]
                on == {live.pods[i].full_name :
                          i \in {k \in 1..Len(live.pods) : live.pods[k].node = n}}
            IN /\ \A k \in 1..Len(e) : e[k].op = "destroy" =>
                     \E i, j \in 1..(k - 1) :
                         /\ i < j
                         /\ e[i].op = "cordon" /\ e[i].ok
                         /\ e[j].op = "evict" /\ e[j].pods = on
               /\ (\E k \in 1..Len(e) : e[k].op = "cordon" /\ ~e[k].ok)
                     => ~Destroys(e)]_vars

\* an apply asked for the instance of a node that carried a pod, and could
\* not cordon another node
C19_Witness ==
    /\ pc = "history"
    /\ \E n, m \in DOMAIN calls.dels :
          /\ Destroys(calls.dels[n])
          /\ \E k \in 1..Len(calls.dels[n]) :
                calls.dels[n][k].op = "evict" /\ calls.dels[n][k].pods # {}
          /\ ~calls.dels[m][1].ok
\* C20: every bind of an apply towards a node the apply had to create goes
\* to a node that was created and that was Ready within the wait.
C20_BindsOnlyReadyNodes ==
    \A b \in calls.binds :
        b[2] \in DOMAIN calls.cres =>
            CreateDone(calls, b[2]) /\ calls.ready[b[2]]
\* C21: every bind of an apply goes to the node the new plan gives the pod,
\* which is another node than the old plan gave it, and is for a pod that
\* was found when read and was Pending and unbound; a pod is bound at most
\* once; a pod whose read answers 404 or 410 is not bound, and every other
\* pod that is due is.
C21_BindOnlyMovedPendingUnbound ==
    [][ApplyStep =>
        /\ \A b \in calls'.binds :
              /\ b[1] \in DOMAIN chosen.pod2node /\ b[2] = chosen.pod2node[b[1]]
              /\ ~(b[1] \in DOMAIN cur.pod2node /\ cur.pod2node[b[1]] = b[2])
              /\ b[1] \notin calls'.lost
              /\ \E i \in 1..Len(live.pods) :
                    /\ live.pods[i].full_name = b[1]
                    /\ live.pods[i].phase = "Pending"
                    /\ live.pods[i].node = "none"
              /\ \A c \in calls'.binds : c[1] = b[1] => c = b
        /\ \A q \in DuePods(live, cur, chosen) \ calls'.lost :
              <<q, chosen.pod2node[q]>> \in calls'.binds]_vars

\* an apply bound a pod, skipped a pod that was Pending at the snapshot and
\* gone when read, and left alone a Running pod that the plan moved
C21_Witness ==
    /\ pc = "history" /\ calls.binds # {}
    /\ \E q \in calls.lost : q \in DOMAIN chosen.pod2node
                             /\ q \notin DOMAIN cur.pod2node
    /\ \E i \in 1..Len(live.pods) :
          /\ live.pods[i].full_name \in calls.reads
          /\ live.pods[i].phase = "Running"
\* a worker the consolidator may select, at low utilisation
IdleNode(lv) ==
    \E i \in 1..Len(lv.nodes) :
        /\ lv.nodes[i].name \notin {"master", "node-1"}
        /\ lv.nodes[i].ready /\ lv.nodes[i].util = "low"

\* C22: a tick of the consolidator that starts less than creation_block_sec
\* after last_node_create_ts deletes no node: while it holds the lock it
\* makes no call and leaves the cluster as it is, and it ends at once.
C22_NoDeleteRightAfterCreate ==
    [][(op_lock = "cons" /\ tick_ts - last_node_create_ts < creation_block_sec)
          => /\ cpc' \in {"check", "wait"}
             /\ live' = live
             /\ calls' = NoCalls]_vars

\* a tick that started 10 s after the start of a cycle whose apply had a
\* node to create is over, and a worker at low utilisation is still there
C22_Witness ==
    /\ cpc = "wait" /\ ticks > 0 /\ op_lock = "free"
    /\ last_node_create_ts > 0
    /\ tick_ts - last_node_create_ts < creation_block_sec
    /\ IdleNode(live)

\* the two nodes that are to stay
Permanent == {"master", "node-1"}

\* C23: master and node-1 are never deleted: every plan of a cycle keeps
\* those of the two that the snapshot holds, so that the apply has neither
\* among its nodes to delete, the consolidator never has them in to_remove,
\* and no delete call is made for them.
C23_MasterAndNode1Stay ==
    /\ IsPlan(cur) =>
          \A p \in AllPlans : (NodeNames(cur) \cap Permanent) \subseteq NodeNames(p)
    /\ Range(to_remove) \cap Permanent = {}
    /\ DOMAIN calls.dels \cap Permanent = {}

\* an apply has deleted a node while node-1, not more than half used, was
\* in the snapshot and stayed in the plan
C23_Witness ==
    /\ pc = "history" /\ DOMAIN calls.dels # {}
    /\ "node-1" \in NodeNames(cur) \cap NodeNames(chosen)
    /\ UtilAtMost(GetNode(cur, "node-1"), 1, 2)

\* the pods the cluster has on master
OnMaster(lv) ==
    {lv.pods[i].full_name :
        i \in {k \in 1..Len(lv.pods) : lv.pods[k].node = "master"}}

\* the pods plan p maps to master or lists on master
PlanOnMaster(p) ==
    {x \in DOMAIN p.pod2node : p.pod2node[x] = "master"}
       \cup UNION {{p.nodes[i].pods[k].full_name : k \in 1..Len(p.nodes[i].pods)} :
                      i \in {j \in 1..Len(p.nodes) : p.nodes[j].name = "master"}}

\* C24: no plan of a cycle, the snapshot after the reuse pass included, has
\* a pod on master that the cluster does not have there, and no bind goes
\* to master.
C24_NothingOntoMaster ==
    /\ \A p \in AllPlans : PlanOnMaster(p) \subseteq OnMaster(live)
    /\ \A b \in calls.binds : b[2] # "master"

\* an apply has bound a pending pod for which master had room
C24_Witness ==
    /\ pc = "history"
    /\ \E b \in calls.binds : \E k \in 1..Len(pending) :
          /\ pending[k].full_name = b[1]
          /\ CanFit(GetNode(cur, "master"), pending[k])

\* the OnDemand price of the VM behind node nd; 0 if the catalog has none
VmPrice(nd) ==
    LET E == {i \in 1..Len(Catalog) : /\ Catalog[i].region = nd.region
                                      /\ Catalog[i].mt = nd.machine_type}
    IN IF E = {} THEN 0 ELSE Catalog[CHOOSE i \in E : TRUE].price

\* existing node x of the previous plan is as large and as dear as the
\* hypothesized node h, each within the gap of 5%
Equivalent(h, x) ==
    /\ x.is_existing
    /\ x.cpu_cap > 0 /\ ~OverGap(h.cpu_cap, x.cpu_cap)
    /\ x.mem_cap > 0 /\ ~OverGap(h.mem_cap, x.mem_cap)
    /\ VmPrice(x) > 0 /\ ~OverGap(h.price, VmPrice(x))

\* the pods plan p maps to the node called name
MappedTo(p, name) == {f \in DOMAIN p.pod2node : p.pod2node[f] = name}

\* C25: the reuse pass replaces every hypothesized node h of the new plan
\* that has an equivalent existing node in the previous plan: the pass ends,
\* and in the plan it leaves h is gone and every pod that was on h is mapped
\* to an equivalent node x and is resident on x.
C25_ReuseReplacesEquivalent ==
    [][pc = "reuse" =>
          \A i \in 1..Len(out.nodes) :
             LET h  == out.nodes[i]
                 np == IF inc_mode THEN incPlan' ELSE fullPlan'
             IN (/\ ~h.is_existing
                 /\ \E j \in 1..Len(cur.nodes) : Equivalent(h, cur.nodes[j]))
                => /\ pc' # "except"
                   /\ ~HasNode(np, h.name)
                   /\ \E j \in 1..Len(cur.nodes) :
                         LET x == cur.nodes[j]
                         IN /\ Equivalent(h, x)
                            /\ HasNode(np, x.name)
                            /\ \A f \in MappedTo(out, h.name) :
                                  /\ f \in DOMAIN np.pod2node
                                  /\ np.pod2node[f] = x.name
                                  /\ PodPos(GetNode(np, x.name), f) # 0]_vars

C27_LoopSurvivesException ==
    /\ [][(SchedInCycle /\ pc' = "except")
             => /\ op_lock = "sched" /\ op_lock' = "free"
                /\ UNCHANGED <<cycles, clockVars>>]_vars
    /\ \A n \in 1..(MaxCycles - 1) :
          (pc = "except" /\ cycles = n)
             ~> (pc = "snapshot" /\ cycles = n + 1 /\ op_lock = "sched")

\* the except clause has been entered from the first cycle, the lock is
\* free and a pod is still pending
C27_Witness ==
    /\ pc = "except" /\ cycles = 1 /\ op_lock = "free"
    /\ FetchPendingList(live) # <<>>

\* C28: the energy of a plan does not depend on master or node-1: a plan of
\* a cycle has the energy of the plan without the two nodes, and the energy
\* of the plan with master or node-1 placed in any other region.
C28_EnergyIgnoresPermanent ==
    \A p \in AllPlans :
       LET Without == [p EXCEPT !.nodes = SelectSeq(p.nodes, Counted)]
           Placed(name, r) ==
               [p EXCEPT !.nodes =
                   [i \in 1..Len(p.nodes) |->
                       IF p.nodes[i].name = name
                       THEN [p.nodes[i] EXCEPT !.region = r]
                       ELSE p.nodes[i]]]
       IN /\ energy(Without) = energy(p)
          /\ \A name \in Permanent : \A r \in CatalogRegions :
                energy(Placed(name, r)) = energy(p)

\* C29: for two pods p1 and p2 that the walker's plan lists on two different
\* nodes, neither of them master, the swap yields a plan exactly when both
\* resulting loads fit (the load of n1 without p1 takes p2, the load of n2
\* without p2 takes p1) and the hard constraints hold, and the plan it
\* yields has the two pods exchanged.
C29_SwapWheneverFits ==
    (pc = "sa" /\ IsPlan(plan)) =>
       \A p1, p2 \in ExpPods(plan) :
          (/\ p1 # p2
           /\ Located(plan, p1) /\ Located(plan, p2)
           /\ plan.pod2node[p1] # plan.pod2node[p2]
           /\ "master" \notin {plan.pod2node[p1], plan.pod2node[p2]}
           /\ PodPos(GetNode(plan, plan.pod2node[p1]), p1) # 0
           /\ PodPos(GetNode(plan, plan.pod2node[p2]), p2) # 0)
          => LET n1  == GetNode(plan, plan.pod2node[p1])
                 n2  == GetNode(plan, plan.pod2node[p2])
                 pd1 == n1.pods[PodPos(n1, p1)]
                 pd2 == n2.pods[PodPos(n2, p2)]
                 fit == /\ CanFit(RmPod(n1, pd1), pd2)
                        /\ CanFit(RmPod(n2, pd2), pd1)
                 nbr == NbrSwap(plan, p1, p2)
             IN /\ IsPlan(nbr) <=> (fit /\ ConstraintsOk(plan))
                /\ IsPlan(nbr) => /\ nbr.pod2node[p1] = n2.name
                                  /\ nbr.pod2node[p2] = n1.name

\* the plan RFSA returns for the pods of queue q, from the state st
RECURSIVE SeedOf(_, _)
SeedOf(st, q) ==
    IF q = <<>> THEN st.plan ELSE SeedOf(RfsaPlace(st, Head(q)), Tail(q))

\* the seed plan of the optimize call in progress
SeedPlan == SeedOf([plan |-> cur, still |-> <<>>], SortPending(pending))

\* C30: the best plan of SAOptimizer.optimize is tracked apart from the
\* walker: it starts as the RFSA seed, a trial leaves it or replaces it by
\* the neighbour just accepted, after every trial its energy is at most its
\* former energy, at most the energy of the walker's plan and at most the
\* energy of the seed, and it is the plan that optimize returns.
C30_BestSeenReturned ==
    [][/\ (pc = "seed" /\ pc' = "sa") => best' = SeedPlan
       /\ (pc = "sa" /\ pc' = "sa")
             => /\ best' \in {best, plan'}
                /\ energy(best') <= energy(best)
                /\ energy(best') <= energy(plan')
                /\ energy(best') <= energy(SeedPlan)
       /\ (pc = "sa" /\ pc' = "reuse")
             => /\ out' = best
                /\ energy(out') <= energy(SeedPlan)]_vars

\* optimize is about to return a plan better than the seed while the walker
\* has gone on to a worse plan
C30_Witness ==
    /\ pc = "sa" /\ ~(T > SA_TMIN)
    /\ energy(best) < energy(SeedPlan)
    /\ energy(plan) > energy(best)

\* C31: the loop of SAOptimizer.optimize terminates.  While T is above Tmin
\* an outer iteration makes exactly n_iter trials, each of which counts
\* whether or not it yields a neighbour, and then multiplies T by alpha,
\* which lowers T; no trial is made once T is not above Tmin, and the loop
\* is left then and only then.  Under fair scheduling optimize returns.
C31_SATerminates ==
    /\ [](pc = "sa" => /\ iter \in 0..N_ITER
                       /\ T > 0
                       /\ ~(T > SA_TMIN) => iter = 0)
    /\ [][pc = "sa" =>
             \/ /\ pc' = "sa" /\ T' = T
                /\ T > SA_TMIN /\ iter < N_ITER /\ iter' = iter + 1
             \/ /\ pc' = "sa" /\ iter = N_ITER /\ iter' = 0
                /\ T > SA_TMIN
                /\ T' = (T * SA_ALPHA_PCT) \div 100 /\ T' < T
             \/ /\ pc' = "reuse" /\ ~(T > SA_TMIN) /\ iter = 0]_vars
    /\ (pc = "sa") ~> (pc = "reuse")

\* an outer iteration has made its trials, not all of them with a
\* neighbour that was accepted, and has brought T from T0 to below Tmin
C31_Witness ==
    /\ pc = "sa" /\ iter = 0
    /\ T = (SA_T0 * SA_ALPHA_PCT) \div 100 /\ ~(T > SA_TMIN)
    /\ plan = SeedPlan /\ ExpPods(plan) # {}

\* C32: packing leaves the nodes backed by a real VM alone: every existing
\* node of the chosen plan, node-1 included, is in the packed plan with the
\* same load and the same resident list, and every pod mapped to it is still
\* mapped to it.
C32_PackSparesExisting ==
    [][pc = "pack" =>
          \A i \in 1..Len(chosen.nodes) :
             LET nd == chosen.nodes[i]
             IN nd.is_existing
                => /\ HasNode(chosen', nd.name)
                   /\ GetNode(chosen', nd.name) = nd
                   /\ \A f \in MappedTo(chosen, nd.name) :
                         /\ f \in DOMAIN chosen'.pod2node
                         /\ chosen'.pod2node[f] = nd.name]_vars

\* packing has run on a plan with a hypothesized node and two existing
\* workers of one family that share a box, and the two are still there
C32_Witness ==
    /\ pc = "apply"
    /\ \E k \in 1..Len(chosen.nodes) : ~chosen.nodes[k].is_existing
    /\ \E i, j \in 1..Len(chosen.nodes) :
          /\ i # j
          /\ \A k \in {i, j} : /\ chosen.nodes[k].is_existing
                               /\ chosen.nodes[k].name # "master"
          /\ PackKey(chosen.nodes[i]) = PackKey(chosen.nodes[j])
          /\ chosen.nodes[i].usable_cpu_cap + chosen.nodes[j].usable_cpu_cap
                <= BIN_CAP * Core - DEFAULT_OVERHEAD_CPU

\* the cpu and the memory of the pods in a resident list
RECURSIVE ListedCpu(_)
ListedCpu(pods) ==
    IF pods = <<>> THEN 0 ELSE Head(pods).cpu + ListedCpu(Tail(pods))

RECURSIVE ListedMem(_)
ListedMem(pods) ==
    IF pods = <<>> THEN 0 ELSE Head(pods).mem + ListedMem(Tail(pods))

\* C33: in every plan of a cycle, each hypothesized node's cpu_used and
\* mem_used are the sums of cpu and mem over the pods of its resident list.
C33_UsageMatchesResidents ==
    \A p \in AllPlans : \A i \in 1..Len(p.nodes) :
       ~p.nodes[i].is_existing
          => /\ p.nodes[i].cpu_used = ListedCpu(p.nodes[i].pods)
             /\ p.nodes[i].mem_used = ListedMem(p.nodes[i].pods)

\* C34: in every plan of a cycle, every value of pod2node is the name of a
\* node of the plan.
C34_NoDanglingPlacement ==
    \A p \in AllPlans : \A f \in DOMAIN p.pod2node : HasNode(p, p.pod2node[f])

\* C35: the snapshot plan of a cycle is read-only: from the snapshot to the
\* apply, through both optimizations, both reuse passes and packing, the
\* previous plan is the plan the snapshot made of the cluster, and every
\* optimization starts from it.
C35_SnapshotReadOnly ==
    /\ [](pc \in {"optimize", "seed", "sa", "reuse", "pack", "apply"}
             => cur = snapshot_cluster(live))
    /\ [][pc = "optimize" => plan' = cur]_vars

\* the full optimization starts after a reuse pass that returned from a plan
\* with a hypothesized node that holds a pod
C35_Witness ==
    /\ pc = "optimize" /\ mode = "full"
    /\ \E i \in 1..Len(incPlan.nodes) :
          ~incPlan.nodes[i].is_existing /\ incPlan.nodes[i].pods # <<>>

\* C36: the reuse pass over the snapshot plan and the plan an optimization
\* has returned completes without raising.
C36_ReuseNeverRaises ==
    pc = "reuse" => ~ReuseNodes(cur, out).raised
\* C37: within one apply at most two calls of the pools run at a time, no
\* create call is started before every delete call of the cycle has
\* returned, and the Ready waits and the binds (the step that ends the apply)
\* start only after every create call has returned.
C37_DeletesThenCreates ==
    /\ [](pc = "apply" =>
            LET pending_delete == NodeNames(cur) \ NodeNames(chosen)
                pending_create == NodeNames(chosen) \ NodeNames(cur)
                started == calls.pool.running \cup calls.pool.returned
            IN /\ Cardinality(calls.pool.running) <= 2
               /\ started \subseteq pending_delete \cup pending_create
               /\ started \cap pending_create # {} =>
                     pending_delete \subseteq calls.pool.returned)
    /\ [][pc = "apply" /\ (calls'.ready # calls.ready \/ calls'.reads # calls.reads
                            \/ calls'.binds # calls.binds \/ pc' # "apply")
             => /\ calls.pool.running = {}
                /\ NodeNames(cur) \ NodeNames(chosen) \subseteq calls.pool.returned
                /\ NodeNames(chosen) \ NodeNames(cur) \subseteq calls.pool.returned
          ]_vars

\* an apply with deletes and creates has made its binds, every call of the
\* two pools having returned
C37_Witness ==
    /\ pc = "history" /\ calls.binds # {}
    /\ DOMAIN calls.dels # {} /\ DOMAIN calls.cres # {}
    /\ calls.pool.returned = DOMAIN calls.dels \cup DOMAIN calls.cres
\* C38: op_lock is held by a loop exactly while that loop is inside its with
\* block: every step that leaves a cycle or a tick (completed, skipped or
\* ended by an exception) frees the lock, never are both loops outside
\* their block with the lock taken, and when every step of the holder is
\* taken in the end a loop that waits for the lock (and has an iteration
\* left within the bounds) acquires it and runs.
C38_LockAlwaysReleased ==
    /\ [](/\ op_lock = "sched" <=> SchedInCycle
          /\ op_lock = "cons" <=> ConsInTick
          /\ op_lock \in {"free", "sched", "cons"})
    /\ [][/\ SchedInCycle /\ ~SchedInCycle' =>
                op_lock = "sched" /\ op_lock' = "free"
          /\ ConsInTick /\ ~ConsInTick' =>
                op_lock = "cons" /\ op_lock' = "free"]_vars
    /\ (pc = "wait" /\ cycles < MaxCycles)
          ~> (op_lock = "sched" /\ pc = "snapshot")
    /\ (cpc = "wait" /\ ticks < MaxTicks)
          ~> (op_lock = "cons" /\ cpc = "check")

\* after its first cycle the scheduler waits for the lock while the
\* consolidator, inside a tick, is about to delete nodes
C38_Witness ==
    /\ pc = "wait" /\ cycles = 1 /\ cycles < MaxCycles
    /\ op_lock = "cons" /\ cpc = "delete"
\* the loads of the nodes of a plan, by name
Loads(p) ==
    [n \in NodeNames(p) |-> <<GetNode(p, n).cpu_used, GetNode(p, n).mem_used>>]

\* C39: move_pod is all-or-nothing. For every plan of the program, every pod
\* listed on a node src and mapped to it, and every other node dst of the
\* plan: when dst cannot fit the pod, move_pod raises and leaves the plan as
\* it was; when it succeeds, moving the pod back succeeds and restores the
\* loads and the mapping.
C39_MovePodAllOrNothing ==
    \A p \in AllPlans : \A i, j \in 1..Len(p.nodes) :
        \A k \in 1..Len(p.nodes[i].pods) :
            LET src == p.nodes[i]
                dst == p.nodes[j]
                pod == src.pods[k]
                r   == MovePod(p, pod, src.name, dst.name)
                b   == MovePod(r.plan, pod, dst.name, src.name)
            IN (/\ i # j
                /\ pod.full_name \in DOMAIN p.pod2node
                /\ p.pod2node[pod.full_name] = src.name)
               => /\ r.raised <=> ~CanFit(dst, pod)
                  /\ r.raised => r.plan = p
                  /\ ~r.raised =>
                        /\ ~b.raised
                        /\ Loads(b.plan) = Loads(p)
                        /\ b.plan.pod2node = p.pod2node
====
